---- MODULE Spec2Model ----
(***************************************************************************)
(* State-machine model of the ingestion / indexing / notebook lifecycle    *)
(* of LightRagNotebookLM: the relational store, the blob store (MinIO),    *)
(* the vector store (Qdrant), the change topic (Kafka), the request        *)
(* handlers of the resource service and the indexing worker's loop.        *)
(* Every request handler is cut at its suspension points (awaits on DB,    *)
(* blob, broker); the code between two suspension points is one action.    *)
(***************************************************************************)
EXTENDS Integers, Sequences, FiniteSets, TLC

(***************************************************************************)
(* Bounds of the model                                                     *)
(***************************************************************************)
MaxUploads == 2
MaxDocDeletes == 1
MaxTopic == 7
MaxSeeds == 2
MaxNbDeletes == 2
MaxFiles == 1
MaxSources == 1
MaxSrcDeletes == 1
MaxAdds == 2
MaxChunks == 3

(***************************************************************************)
(* Universes                                                               *)
(***************************************************************************)
Users == {"u1", "u2"}
FileNames == <<"f1", "f2", "f3", "f4", "f5", "f6", "f7">>
Files == {FileNames[i] : i \in 1..Len(FileNames)}
Uploaders == {"u1"}
UploadFiles == {FileNames[i] : i \in 1..MaxFiles}
Contents == {"x", "y"}
Limiters == {"none", "simple"}
NoBlob == "none"
NoId == 0

Seeds == 1..MaxSeeds
UploadIds == 1..MaxUploads
DocDeleteIds == 1..MaxDocDeletes
NbDeleteIds == 1..MaxNbDeletes
SrcDeleteIds == 1..MaxSrcDeletes
AddIds == 1..MaxAdds

VARIABLES
    documents,      \* committed Document rows
    sources,        \* committed Source rows
    notebooks,      \* committed Notebook rows
    notebookSources,\* committed NotebookSource rows
    blobs,          \* blob store: object key -> content or NoBlob
    points,         \* vector store: set of points
    topic,          \* change topic: sequence of events
    position,       \* worker consumer: next offset to fetch
    committed,      \* consumer group: committed offset
    tasks,          \* worker: tasks of the current batch
    hashSeed,       \* worker process: str-hash randomisation seed
    timedOut,       \* offsets of events whose task was cancelled by the batch timeout
    applied,        \* offsets of events whose handler has run to completion
    uploads,        \* in-flight / finished upload requests
    docDeletes,     \* in-flight / finished document delete requests
    cleanup,        \* the orphaned-file cleanup run
    nbDeletes,      \* in-flight / finished notebook delete requests
    srcDeletes,     \* in-flight / finished source delete requests
    retrieval,      \* the last retrieval call: caller and returned chunks
    lookup,         \* the last read of one resource: caller, id and http status
    publisher,      \* the Kafka publisher call under way: event, attempts, result
    adds,           \* in-flight / finished add-source-to-notebook requests
    admin,          \* the consistency-check / cleanup endpoint request under way
    presign,        \* the last GET /uploads/presign: caller, key, url, http status
    toolCall,       \* the last look_up_sources call: returned message and calls made
    stream,         \* the AG-UI event stream of the chat run under way
    nextId          \* next fresh uuid

vars == <<documents, sources, notebooks, notebookSources, blobs, points, topic,
          position, committed, tasks, hashSeed, timedOut, applied, uploads, docDeletes,
          cleanup, nbDeletes, srcDeletes, retrieval, lookup, publisher, adds, admin,
          presign, toolCall, stream, nextId>>

storeVars == <<documents, sources, notebooks, notebookSources, blobs, points>>
workerVars == <<position, committed, tasks, hashSeed, timedOut, applied>>
extraVars == <<admin, presign, toolCall, stream>>
queryVars == <<retrieval, lookup, publisher, adds, extraVars>>

(***************************************************************************)
(* Object keys: "{owner_id}/{filename}"                                    *)
(***************************************************************************)
ObjectKey(u, f) == <<u, f>>
Keys == {ObjectKey(u, f) : u \in Users, f \in Files}

(***************************************************************************)
(* Relational constraints                                                  *)
(***************************************************************************)
\* the constraint switched off
UniqueViolationOff(docs, u, k) == FALSE

\* UniqueConstraint('owner_id', 'object_key'): TRUE iff inserting (u, k) violates it
UniqueViolation(docs, u, k) == \E d \in docs : d.owner_id = u /\ d.object_key = k

\* a pre-check that finds no row
ExistingDocumentOff(docs, u, k) == FALSE

\* the upload's pre-check: SELECT Document WHERE owner_id = u AND object_key = k
ExistingDocument(docs, u, k) == \E d \in docs : d.owner_id = u /\ d.object_key = k

ProcessingCount(docs, u) ==
    Cardinality({d \in docs : d.owner_id = u /\ d.status = "processing"})

(***************************************************************************)
(* Per-user concurrency gate                                               *)
(***************************************************************************)
MAX_CONCURRENT_PROCESSING_PER_USER == 5

\* SimpleRateLimiter.check_processing_limit builds its query from
\* NotebookSource.document_id; NotebookSource has no such column, so the
\* attribute lookup raises before any query is issued.
SimpleCheckProcessingLimit(docs, u) == "error"

\* FileUploadService: `if self.rate_limiter:` then check_processing_limit
RateLimitCheck(lim, docs, u) ==
    IF lim = "none" THEN "allow" ELSE SimpleCheckProcessingLimit(docs, u)

(***************************************************************************)
(* Upload: FileUploadService.upload_file_transactional                     *)
(***************************************************************************)
IdleUpload == [pc |-> "idle", user |-> "-", file |-> "-", data |-> "-",
               limiter |-> "-", gate |-> "-", gateCount |-> 0,
               result |-> "-", cause |-> "-", doc |-> NoId]

\* _cleanup_failed_upload calls self._delete_from_minio, which FileUploadService
\* does not define (only FileDeleteService does): the AttributeError is caught
\* and logged, and the blob store is left as it is.
CleanupFailedUpload(b, k) == b

DocumentEvent(op, d) ==
    [kind |-> "document", op |-> op, id |-> d.id, owner_id |-> d.owner_id,
     object_key |-> d.object_key]

\* read + gate + idempotency check + session.add
UploadCheck(r, u, f, c, lim) ==
    /\ uploads[r].pc = "idle"
    /\ LET gate == RateLimitCheck(lim, documents, u)
           req == [IdleUpload EXCEPT !.user = u, !.file = f, !.data = c,
                                     !.limiter = lim, !.gate = gate,
                                     !.gateCount = ProcessingCount(documents, u)]
       IN uploads' = [uploads EXCEPT ![r] =
            IF gate = "error"
            THEN [req EXCEPT !.pc = "done", !.result = "error", !.cause = "gate",
                             !.data = "-"]
            ELSE IF gate = "deny"
            THEN [req EXCEPT !.pc = "done", !.result = "validation", !.cause = "gate",
                             !.data = "-"]
            ELSE IF ExistingDocument(documents, u, ObjectKey(u, f))
            THEN [req EXCEPT !.pc = "done", !.result = "conflict", !.cause = "exists",
                             !.data = "-"]
            ELSE [req EXCEPT !.pc = "put"]]
    /\ UNCHANGED <<storeVars, topic, workerVars, docDeletes, cleanup, nbDeletes, srcDeletes, queryVars, nextId>>

\* _upload_to_minio (with its retries); on failure rollback + _cleanup_failed_upload
UploadPut(r, ok) ==
    /\ uploads[r].pc = "put"
    /\ LET k == ObjectKey(uploads[r].user, uploads[r].file) IN
       IF ok
       THEN /\ blobs' = [blobs EXCEPT ![k] = uploads[r].data]
            /\ uploads' = [uploads EXCEPT ![r].pc = "commit"]
       ELSE /\ blobs' = CleanupFailedUpload(blobs, k)
            /\ uploads' = [uploads EXCEPT ![r].pc = "done", ![r].result = "failed",
                                          ![r].cause = "put", ![r].data = "-"]
    /\ UNCHANGED <<documents, sources, notebooks, notebookSources, points, topic,
                   workerVars, docDeletes, cleanup, nbDeletes, srcDeletes, queryVars, nextId>>

\* _commit_transaction + refresh; on failure rollback + _cleanup_failed_upload
UploadCommit(r, ok) ==
    /\ uploads[r].pc = "commit"
    /\ LET u == uploads[r].user
           k == ObjectKey(u, uploads[r].file)
           dup == UniqueViolation(documents, u, k)
       IN IF ok /\ ~dup
          THEN /\ documents' = documents \cup
                      {[id |-> nextId, owner_id |-> u, object_key |-> k,
                        status |-> "pending", file_hash |-> uploads[r].data,
                        source_id |-> NoId]}
               /\ nextId' = nextId + 1
               /\ uploads' = [uploads EXCEPT ![r].pc = "publish", ![r].doc = nextId,
                                             ![r].data = "-"]
               /\ UNCHANGED blobs
          ELSE /\ blobs' = CleanupFailedUpload(blobs, k)
               /\ uploads' = [uploads EXCEPT ![r].pc = "done", ![r].result = "failed",
                                 ![r].cause = IF dup THEN "integrity" ELSE "commit",
                                 ![r].data = "-"]
               /\ UNCHANGED <<documents, nextId>>
    /\ UNCHANGED <<sources, notebooks, notebookSources, points, topic,
                   workerVars, docDeletes, cleanup, nbDeletes, srcDeletes, queryVars>>

\* a publish whose failure fails the upload and takes the row back
UploadPublishStrict(r, ok) ==
    /\ uploads[r].pc = "publish"
    /\ LET d == [id |-> uploads[r].doc, owner_id |-> uploads[r].user,
                 object_key |-> ObjectKey(uploads[r].user, uploads[r].file)]
       IN topic' = IF ok THEN Append(topic, DocumentEvent("c", d)) ELSE topic
    /\ ok => Len(topic) < MaxTopic
    /\ documents' = IF ok THEN documents
                    ELSE {d \in documents : d.id # uploads[r].doc}
    /\ uploads' = [uploads EXCEPT ![r].pc = "done",
                                  ![r].result = IF ok THEN "ok" ELSE "failed"]
    /\ UNCHANGED <<sources, notebooks, notebookSources, blobs, points, workerVars,
                   docDeletes, cleanup, nbDeletes, srcDeletes, queryVars, nextId>>

\* _publish_kafka_event(document, owner, "c"): a failed publish is only logged
UploadPublish(r, ok) ==
    /\ uploads[r].pc = "publish"
    /\ LET d == [id |-> uploads[r].doc, owner_id |-> uploads[r].user,
                 object_key |-> ObjectKey(uploads[r].user, uploads[r].file)]
       IN topic' = IF ok THEN Append(topic, DocumentEvent("c", d)) ELSE topic
    /\ ok => Len(topic) < MaxTopic
    /\ uploads' = [uploads EXCEPT ![r].pc = "done", ![r].result = "ok"]
    /\ UNCHANGED <<storeVars, workerVars, docDeletes, cleanup, nbDeletes, srcDeletes, queryVars, nextId>>

(***************************************************************************)
(* Delete document: FileDeleteService.delete_document_transactional        *)
(***************************************************************************)
IdleDocDelete == [pc |-> "idle", user |-> "-", doc |-> NoId, object_key |-> <<>>,
                  result |-> "-", cause |-> "-"]

\* a delete that goes on to the blob without verifying the row
DocDeleteStartUnverified(r, u, id) ==
    /\ docDeletes[r].pc = "idle"
    /\ docDeletes' = [docDeletes EXCEPT ![r] =
          [IdleDocDelete EXCEPT !.pc = "minio", !.user = u, !.doc = id,
                                !.object_key = ObjectKey(u, "f1")]]
    /\ UNCHANGED <<storeVars, topic, workerVars, uploads, cleanup, nbDeletes, srcDeletes, queryVars, nextId>>

\* _get_and_verify_document: the row must exist and be owned by the caller
DocDeleteStart(r, u, id) ==
    /\ docDeletes[r].pc = "idle"
    /\ LET found == {d \in documents : d.id = id /\ d.owner_id = u} IN
       docDeletes' = [docDeletes EXCEPT ![r] =
          IF found = {}
          THEN [IdleDocDelete EXCEPT !.pc = "done", !.user = u, !.doc = id,
                                     !.result = "not_found"]
          ELSE [IdleDocDelete EXCEPT !.pc = "minio", !.user = u, !.doc = id,
                   !.object_key = (CHOOSE d \in found : TRUE).object_key]]
    /\ UNCHANGED <<storeVars, topic, workerVars, uploads, cleanup, nbDeletes, srcDeletes, queryVars, nextId>>

\* step 1 whose failure ends the request but also removes the row
DocDeleteMinioDropsRow(r, ok) ==
    /\ docDeletes[r].pc = "minio"
    /\ IF ok
       THEN /\ blobs' = [blobs EXCEPT ![docDeletes[r].object_key] = NoBlob]
            /\ docDeletes' = [docDeletes EXCEPT ![r].pc = "publish"]
            /\ UNCHANGED documents
       ELSE /\ UNCHANGED blobs
            /\ documents' = {d \in documents : d.id # docDeletes[r].doc}
            /\ docDeletes' = [docDeletes EXCEPT ![r].pc = "done",
                                 ![r].result = "failed", ![r].cause = "minio"]
    /\ UNCHANGED <<sources, notebooks, notebookSources, points, topic,
                   workerVars, uploads, cleanup, nbDeletes, srcDeletes, queryVars, nextId>>

\* step 1 leaving the object in place
DocDeleteMinioKeepsBlob(r, ok) ==
    /\ docDeletes[r].pc = "minio"
    /\ docDeletes' = [docDeletes EXCEPT ![r].pc = "publish"]
    /\ UNCHANGED <<storeVars, topic, workerVars, uploads, cleanup, nbDeletes,
                   srcDeletes, queryVars, nextId>>

\* step 1: _delete_from_minio (with its retries); a failure ends the request
DocDeleteMinio(r, ok) ==
    /\ docDeletes[r].pc = "minio"
    /\ IF ok
       THEN /\ blobs' = [blobs EXCEPT ![docDeletes[r].object_key] = NoBlob]
            /\ docDeletes' = [docDeletes EXCEPT ![r].pc = "publish"]
       ELSE /\ UNCHANGED blobs
            /\ docDeletes' = [docDeletes EXCEPT ![r].pc = "done",
                                 ![r].result = "failed", ![r].cause = "minio"]
    /\ UNCHANGED <<documents, sources, notebooks, notebookSources, points, topic,
                   workerVars, uploads, cleanup, nbDeletes, srcDeletes, queryVars, nextId>>

\* step 2: _publish_kafka_event(document, owner, "d"): a failed publish is only logged
DocDeletePublish(r, ok) ==
    /\ docDeletes[r].pc = "publish"
    /\ ok => Len(topic) < MaxTopic
    /\ LET d == [id |-> docDeletes[r].doc, owner_id |-> docDeletes[r].user,
                 object_key |-> docDeletes[r].object_key]
       IN topic' = IF ok THEN Append(topic, DocumentEvent("d", d)) ELSE topic
    /\ docDeletes' = [docDeletes EXCEPT ![r].pc = "row"]
    /\ UNCHANGED <<storeVars, workerVars, uploads, cleanup, nbDeletes, srcDeletes, queryVars, nextId>>

\* step 3: _delete_document_record; on failure rollback and log the inconsistency
DocDeleteRow(r, ok) ==
    /\ docDeletes[r].pc = "row"
    /\ IF ok
       THEN /\ documents' = {d \in documents : d.id # docDeletes[r].doc}
            /\ docDeletes' = [docDeletes EXCEPT ![r].pc = "done", ![r].result = "ok"]
       ELSE /\ UNCHANGED documents
            /\ docDeletes' = [docDeletes EXCEPT ![r].pc = "done",
                                 ![r].result = "failed", ![r].cause = "row"]
    /\ UNCHANGED <<sources, notebooks, notebookSources, blobs, points, topic,
                   workerVars, uploads, cleanup, nbDeletes, srcDeletes, queryVars, nextId>>

\* the response has been sent: the next delete request can be served
DocDeleteReturn(r) ==
    /\ docDeletes[r].pc = "done"
    /\ docDeletes' = [docDeletes EXCEPT ![r] = IdleDocDelete]
    /\ UNCHANGED <<storeVars, topic, workerVars, uploads, cleanup, nbDeletes, srcDeletes, queryVars, nextId>>

(***************************************************************************)
(* Reconciler: cleanup_orphaned_minio_files                                *)
(***************************************************************************)
IdleCleanup == [pc |-> "idle", dry_run |-> TRUE, orphaned |-> {}, deleted |-> {},
                failed |-> {}]

\* find_orphaned_minio_files: objects with no Document row of that object_key
FindOrphanedMinioFiles(b, docs) ==
    {k \in DOMAIN b : b[k] # NoBlob /\ ~\E d \in docs : d.object_key = k}

\* the scan; a dry run, or a scan that finds nothing, returns at once
CleanupScan(dry_run) ==
    /\ cleanup.pc = "idle"
    /\ LET orphaned == FindOrphanedMinioFiles(blobs, documents) IN
       cleanup' = [IdleCleanup EXCEPT
                     !.pc = IF orphaned = {} \/ dry_run THEN "done" ELSE "remove",
                     !.dry_run = dry_run, !.orphaned = orphaned]
    /\ UNCHANGED <<storeVars, topic, workerVars, uploads, docDeletes, nbDeletes, srcDeletes, queryVars, nextId>>

\* one turn of the deletion loop: _remove_minio_object (with its retries)
CleanupRemove(k, ok) ==
    /\ cleanup.pc = "remove"
    /\ k \in cleanup.orphaned \ (cleanup.deleted \cup cleanup.failed)
    /\ blobs' = IF ok THEN [blobs EXCEPT ![k] = NoBlob] ELSE blobs
    /\ LET c == IF ok THEN [cleanup EXCEPT !.deleted = @ \cup {k}]
                      ELSE [cleanup EXCEPT !.failed = @ \cup {k}]
       IN cleanup' = [c EXCEPT !.pc = IF c.deleted \cup c.failed = c.orphaned
                                       THEN "done" ELSE "remove"]
    /\ UNCHANGED <<documents, sources, notebooks, notebookSources, points, topic,
                   workerVars, uploads, docDeletes, nbDeletes, srcDeletes, queryVars, nextId>>

(***************************************************************************)
(* Create source: POST /sources (create_source)                            *)
(***************************************************************************)
URLSourceEvent(op, s) ==
    [kind |-> "url", op |-> op, id |-> s.id, owner_id |-> s.owner_id,
     object_key |-> <<>>]

\* validate metadata, insert and commit the row, publish a create event for a
\* url source (a failed publish is only logged)
CreateSourceUnpublished(u, type, doc, pubOk) ==
    /\ type = "document" => doc # NoId
    /\ type # "document" => doc = NoId
    /\ (type = "url" /\ pubOk) => Len(topic) < MaxTopic
    /\ type # "url" => pubOk = FALSE
    /\ LET s == [id |-> nextId, owner_id |-> u, source_type |-> type,
                 document_id |-> doc, status |-> "pending"]
       IN /\ sources' = sources \cup {s}
          /\ topic' = topic
    /\ nextId' = nextId + 1
    /\ UNCHANGED <<documents, notebooks, notebookSources, blobs, points, workerVars,
                   uploads, docDeletes, cleanup, nbDeletes, srcDeletes, queryVars>>

CreateSource(u, type, doc, pubOk) ==
    /\ type = "document" => doc # NoId
    /\ type # "document" => doc = NoId
    /\ (type = "url" /\ pubOk) => Len(topic) < MaxTopic
    /\ type # "url" => pubOk = FALSE
    /\ LET s == [id |-> nextId, owner_id |-> u, source_type |-> type,
                 document_id |-> doc, status |-> "pending"]
       IN /\ sources' = sources \cup {s}
          /\ topic' = IF type = "url" /\ pubOk
                      THEN Append(topic, URLSourceEvent("c", s)) ELSE topic
    /\ nextId' = nextId + 1
    /\ UNCHANGED <<documents, notebooks, notebookSources, blobs, points, workerVars,
                   uploads, docDeletes, cleanup, nbDeletes, srcDeletes, queryVars>>

(***************************************************************************)
(* Vector store gateway: QdrantManager                                     *)
(***************************************************************************)
\* hash(f"{document_id}_{i}") & 0x7fffffffffffffff: Python salts str hashes per
\* process, so the value depends on the process's hash seed.  The triple stands
\* for the hash value (collisions between different strings are not modelled).
PointId(seed, logical_id, i) == <<seed, logical_id, i>>

\* RecursiveCharacterTextSplitter.split_text on the extracted text: the number
\* of chunks depends on the content
SplitText(c) ==
    CASE c = "x" -> <<"x0", "x1">>
      [] c = "y" -> <<"y0">>
      [] OTHER -> <<>>

NewPoints(seed, logical_id, chunks, owner) ==
    {[id |-> PointId(seed, logical_id, i), document_id |-> logical_id,
      chunk_index |-> i - 1, chunk_text |-> chunks[i], owner_id |-> owner] :
        i \in 1..Len(chunks)}

\* upsert_chunks: one point per chunk, client.upsert overwrites points by id
UpsertChunks(pts, seed, logical_id, chunks, owner) ==
    LET new == NewPoints(seed, logical_id, chunks, owner)
    IN {p \in pts : \A n \in new : n.id # p.id} \cup new

\* delete_document_chunks: delete by filter payload.document_id == id
DeleteDocumentChunks(pts, id) == {p \in pts : p.document_id # id}

PointsOf(pts, id) == {p \in pts : p.document_id = id}

(***************************************************************************)
(* Indexing worker: IndexingWorker.run and the event handlers              *)
(***************************************************************************)
INDEXING_WORKER_BATCH_SIZE == 10

Min(a, b) == IF a < b THEN a ELSE b

\* _update_entity_status: single-row write, a missing row is only logged
SetStatusLost(rows, id, st) == rows

SetStatus(rows, id, st) ==
    {IF r.id = id THEN [r EXCEPT !.status = st] ELSE r : r \in rows}

Unfinished == {o \in DOMAIN tasks : tasks[o].pc # "done"}

\* consumer.poll: with enable_auto_commit the consumer commits its position (the
\* records already handed out) when the auto-commit interval has elapsed, then
\* returns up to max_records records and advances the position; one task is
\* created per record.  The previous batch has been gathered.
Poll(commit) ==
    /\ Unfinished = {}
    /\ LET n == Min(INDEXING_WORKER_BATCH_SIZE, Len(topic) - position)
           batch == (position + 1)..(position + n)
       IN /\ n > 0 \/ (commit /\ committed # position) \/ DOMAIN tasks # {}
          /\ committed' = IF commit THEN position ELSE committed
          /\ position' = position + n
          /\ tasks' = [o \in batch |-> [pc |-> "start", ev |-> topic[o], data |-> "-"]]
          /\ timedOut' = timedOut \ batch
    /\ UNCHANGED <<storeVars, topic, hashSeed, applied, uploads, docDeletes,
                   cleanup, nbDeletes, srcDeletes, queryVars, nextId>>

\* process_event up to its first suspension point (tasks start in the order
\* they were created): a delete event removes the points (synchronous call, a
\* failure is only logged); a create/update event writes status `processing`
\* (a failed write is only logged)
TaskStartSilent(o, ok) ==
    /\ o \in DOMAIN tasks /\ tasks[o].pc = "start"
    /\ \A q \in DOMAIN tasks : q < o => tasks[q].pc # "start"
    /\ LET ev == tasks[o].ev IN
       IF ev.op = "d"
       THEN /\ points' = IF ok THEN DeleteDocumentChunks(points, ev.id) ELSE points
            /\ tasks' = [tasks EXCEPT ![o].pc = "done"]
            /\ applied' = IF ok THEN applied \cup {o} ELSE applied
            /\ UNCHANGED <<documents, sources>>
       ELSE /\ documents' = IF FALSE /\ ev.kind = "document"
                            THEN SetStatus(documents, ev.id, "processing") ELSE documents
            /\ sources' = IF FALSE /\ ev.kind = "url"
                          THEN SetStatus(sources, ev.id, "processing") ELSE sources
            /\ tasks' = [tasks EXCEPT ![o].pc = "fetch"]
            /\ UNCHANGED <<points, applied>>
    /\ UNCHANGED <<notebooks, notebookSources, blobs, topic, position, committed,
                   hashSeed, timedOut, uploads, docDeletes, cleanup, nbDeletes, srcDeletes, queryVars, nextId>>

TaskStart(o, ok) ==
    /\ o \in DOMAIN tasks /\ tasks[o].pc = "start"
    /\ \A q \in DOMAIN tasks : q < o => tasks[q].pc # "start"
    /\ LET ev == tasks[o].ev IN
       IF ev.op = "d"
       THEN /\ points' = IF ok THEN DeleteDocumentChunks(points, ev.id) ELSE points
            /\ tasks' = [tasks EXCEPT ![o].pc = "done"]
            /\ applied' = IF ok THEN applied \cup {o} ELSE applied
            /\ UNCHANGED <<documents, sources>>
       ELSE /\ documents' = IF ok /\ ev.kind = "document"
                            THEN SetStatus(documents, ev.id, "processing") ELSE documents
            /\ sources' = IF ok /\ ev.kind = "url"
                          THEN SetStatus(sources, ev.id, "processing") ELSE sources
            /\ tasks' = [tasks EXCEPT ![o].pc = "fetch"]
            /\ UNCHANGED <<points, applied>>
    /\ UNCHANGED <<notebooks, notebookSources, blobs, topic, position, committed,
                   hashSeed, timedOut, uploads, docDeletes, cleanup, nbDeletes, srcDeletes, queryVars, nextId>>

\* _get_file_data (documents: the blob at the event's object key) or the URL
\* fetch (url sources: whatever the page holds now); nothing fetched -> `failed`
TaskFetch(o, c) ==
    /\ o \in DOMAIN tasks /\ tasks[o].pc = "fetch"
    /\ LET ev == tasks[o].ev IN
       /\ ev.kind = "document" => c = blobs[ev.object_key]
       /\ IF c = NoBlob
          THEN /\ documents' = IF ev.kind = "document"
                               THEN SetStatus(documents, ev.id, "failed") ELSE documents
               /\ sources' = IF ev.kind = "url"
                             THEN SetStatus(sources, ev.id, "failed") ELSE sources
               /\ tasks' = [tasks EXCEPT ![o].pc = "done"]
          ELSE /\ tasks' = [tasks EXCEPT ![o].pc = "index", ![o].data = c]
               /\ UNCHANGED <<documents, sources>>
    /\ UNCHANGED <<notebooks, notebookSources, blobs, points, topic, position,
                   committed, hashSeed, timedOut, applied, uploads, docDeletes, cleanup,
                   nbDeletes, srcDeletes, queryVars, nextId>>

\* split, embed, upsert_chunks; no text, an embedding failure or an upsert
\* failure -> `failed`
TaskUpsert(o, ok) ==
    /\ o \in DOMAIN tasks /\ tasks[o].pc = "index"
    /\ LET ev == tasks[o].ev
           chunks == SplitText(tasks[o].data)
       IN IF ok /\ Len(chunks) > 0
          THEN /\ points' = UpsertChunks(points, hashSeed, ev.id, chunks, ev.owner_id)
               /\ tasks' = [tasks EXCEPT ![o].pc = "finish"]
               /\ UNCHANGED <<documents, sources>>
          ELSE /\ documents' = IF ev.kind = "document"
                               THEN SetStatus(documents, ev.id, "failed") ELSE documents
               /\ sources' = IF ev.kind = "url"
                             THEN SetStatus(sources, ev.id, "failed") ELSE sources
               /\ tasks' = [tasks EXCEPT ![o].pc = "done"]
               /\ UNCHANGED points
    /\ UNCHANGED <<notebooks, notebookSources, blobs, topic, position, committed,
                   hashSeed, timedOut, applied, uploads, docDeletes, cleanup, nbDeletes, srcDeletes, queryVars, nextId>>

\* the final status write: `indexed`
TaskFinish(o) ==
    /\ o \in DOMAIN tasks /\ tasks[o].pc = "finish"
    /\ LET ev == tasks[o].ev IN
       /\ documents' = IF ev.kind = "document"
                       THEN SetStatus(documents, ev.id, "indexed") ELSE documents
       /\ sources' = IF ev.kind = "url"
                     THEN SetStatus(sources, ev.id, "indexed") ELSE sources
    /\ tasks' = [tasks EXCEPT ![o].pc = "done"]
    /\ applied' = applied \cup {o}
    /\ UNCHANGED <<notebooks, notebookSources, blobs, points, topic, position,
                   committed, hashSeed, timedOut, uploads, docDeletes, cleanup,
                   nbDeletes, srcDeletes, queryVars, nextId>>

\* asyncio.wait_for expires (every task has run up to its first suspension
\* point by then): the unfinished tasks of the batch are cancelled; the
\* consumer's position is left where poll put it
Timeout ==
    /\ Unfinished # {}
    /\ \A o \in DOMAIN tasks : tasks[o].pc # "start"
    /\ timedOut' = timedOut \cup Unfinished
    /\ tasks' = <<>>
    /\ UNCHANGED <<storeVars, topic, position, committed, hashSeed, applied,
                   uploads, docDeletes, cleanup, nbDeletes, srcDeletes, queryVars, nextId>>

\* the worker process is restarted: a new process (new hash seed) joins the
\* consumer group and resumes from the committed offset
Restart(seed) ==
    /\ hashSeed' = seed
    /\ position' = committed
    /\ tasks' = <<>>
    /\ UNCHANGED <<storeVars, topic, committed, timedOut, applied, uploads, docDeletes,
                   cleanup, nbDeletes, srcDeletes, queryVars, nextId>>

(***************************************************************************)
(* Delete source: SourceDeleteService.delete_source_transactional          *)
(***************************************************************************)
\* _cleanup_document_source_storage, step 2: `from app.api.deps import get_session`
\* names a function app.api.deps does not define; the ImportError is caught by
\* the enclosing `except Exception`, so the MinIO delete is never reached.
CleanupDocumentBlob(b, docs, doc, u) == b

\* _cleanup_source_storage: the vector points (step 1; a failure is only logged)
CleanupSourcePoints(pts, s, qdrantOk) ==
    IF ~qdrantOk THEN pts
    ELSE IF s.source_type = "document" THEN DeleteDocumentChunks(pts, s.document_id)
    ELSE IF s.source_type = "url" THEN DeleteDocumentChunks(pts, s.id)
    ELSE pts

\* _cleanup_source_storage: the blob (document sources only)
CleanupSourceBlob(b, docs, s, u) ==
    IF s.source_type = "document" /\ s.document_id # NoId
    THEN CleanupDocumentBlob(b, docs, s.document_id, u) ELSE b

\* session.delete(source): the membership rows go with the source
\* (cascade_delete); a Document row pointing at it keeps existing with a null
\* source_id
DeleteSourceRow(srcs, id) == {s \in srcs : s.id # id}
DeleteSourceMemberships(nbsrc, id) == {ns \in nbsrc : ns.source_id # id}
DetachDocuments(docs, id) ==
    {IF d.source_id = id THEN [d EXCEPT !.source_id = NoId] ELSE d : d \in docs}

IdleSrcDelete == [pc |-> "idle", user |-> "-", source |-> NoId, type |-> "-",
                  document |-> NoId, result |-> "-"]

\* SourceService.get_source_with_ownership: the row must exist and be owned by
\* the caller, otherwise SourceNotExistError (the endpoint answers 404)
SrcDeleteStart(r, u, id) ==
    /\ srcDeletes[r].pc = "idle"
    /\ LET found == {s \in sources : s.id = id /\ s.owner_id = u} IN
       srcDeletes' = [srcDeletes EXCEPT ![r] =
          IF found = {}
          THEN [IdleSrcDelete EXCEPT !.pc = "done", !.user = u, !.source = id,
                                     !.result = "not_found"]
          ELSE LET s == CHOOSE x \in found : TRUE
               IN [IdleSrcDelete EXCEPT !.pc = "cleanup", !.user = u, !.source = id,
                                        !.type = s.source_type,
                                        !.document = s.document_id]]
    /\ UNCHANGED <<storeVars, topic, workerVars, uploads, docDeletes, cleanup,
                   nbDeletes, queryVars, nextId>>

\* _cleanup_source_storage with the failure of the vector delete raised to the
\* caller instead of logged: the request fails before the row is touched
SrcDeleteCleanupStrict(r, qdrantOk) ==
    /\ srcDeletes[r].pc = "cleanup"
    /\ LET s == [id |-> srcDeletes[r].source, source_type |-> srcDeletes[r].type,
                 document_id |-> srcDeletes[r].document]
       IN /\ points' = CleanupSourcePoints(points, s, qdrantOk)
          /\ blobs' = CleanupSourceBlob(blobs, documents, s, srcDeletes[r].user)
    /\ srcDeletes' = IF qdrantOk
                     THEN [srcDeletes EXCEPT ![r].pc = "row"]
                     ELSE [srcDeletes EXCEPT ![r].pc = "done", ![r].result = "failed"]
    /\ UNCHANGED <<documents, sources, notebooks, notebookSources, topic, workerVars,
                   uploads, docDeletes, cleanup, nbDeletes, queryVars, nextId>>

\* _cleanup_source_storage: the vector points, then (document sources) the blob
SrcDeleteCleanup(r, qdrantOk) ==
    /\ srcDeletes[r].pc = "cleanup"
    /\ LET s == [id |-> srcDeletes[r].source, source_type |-> srcDeletes[r].type,
                 document_id |-> srcDeletes[r].document]
       IN /\ points' = CleanupSourcePoints(points, s, qdrantOk)
          /\ blobs' = CleanupSourceBlob(blobs, documents, s, srcDeletes[r].user)
    /\ srcDeletes' = [srcDeletes EXCEPT ![r].pc = "row"]
    /\ UNCHANGED <<documents, sources, notebooks, notebookSources, topic, workerVars,
                   uploads, docDeletes, cleanup, nbDeletes, queryVars, nextId>>

\* session.delete(source) + commit; a failure rolls back and the request fails
\* with status 500
SrcDeleteRow(r, ok) ==
    /\ srcDeletes[r].pc = "row"
    /\ IF ok
       THEN /\ sources' = DeleteSourceRow(sources, srcDeletes[r].source)
            /\ notebookSources' =
                  DeleteSourceMemberships(notebookSources, srcDeletes[r].source)
            /\ documents' = DetachDocuments(documents, srcDeletes[r].source)
            /\ srcDeletes' = [srcDeletes EXCEPT ![r].pc = "done", ![r].result = "ok"]
       ELSE /\ UNCHANGED <<sources, notebookSources, documents>>
            /\ srcDeletes' = [srcDeletes EXCEPT ![r].pc = "done",
                                                ![r].result = "failed"]
    /\ UNCHANGED <<notebooks, blobs, points, topic, workerVars, uploads, docDeletes,
                   cleanup, nbDeletes, queryVars, nextId>>

(***************************************************************************)
(* Retrieval: the agent's look_up_sources tool and GET /search/documents   *)
(***************************************************************************)
NoRetrieval == [user |-> "-", via |-> "-", chunks |-> {}]

\* The vector store ranks by similarity to the query embedding, which lies
\* outside the model: any set of at most `limit` matching points can come back.
TopK(matching, limit) == {c \in SUBSET matching : Cardinality(c) <= limit}

\* _qdrant_search_with_filter: a `should` filter over document_id or source_id
\* of the selected ids (the payload carries no source_id); no filter at all when
\* the list is empty; no condition on owner_id
QdrantSearchWithFilter(pts, selected_ids) ==
    IF selected_ids = {} THEN pts
    ELSE {p \in pts : p.document_id \in selected_ids}

\* the strings look_up_sources returns
NoSourcesSelected == "No sources selected. Please select at least one source and try again."
ApiKeyNotConfigured == "OPENAI_API_KEY not configured on the agent."
EmbeddingFailed == "Failed to create embedding for the query."
SearchFailed == "Failed to search sources."
NoRelevantInformation ==
    "No relevant information found in the selected sources. Try different sources or rephrase your query."
TopChunks == "Top chunks:"

NoToolCall == [called |-> FALSE, empty_selection |-> FALSE, message |-> "-",
               embedding_calls |-> 0, vector_queries |-> 0]

ToolReturn(selected_sources, message, embeds, queries) ==
    [called |-> TRUE, empty_selection |-> (selected_sources = {}),
     message |-> message, embedding_calls |-> embeds, vector_queries |-> queries]

\* look_up_sources without the `if not selected_sources` return: an empty
\* selection goes on to the embedding and to an unfiltered search
LookUpSourcesCallNoReturn(u, selected_sources, top_k, apiKey, embedOk, searchOk) ==
    /\ IF ~apiKey
       THEN /\ retrieval' = [user |-> u, via |-> "look_up_sources", chunks |-> {}]
            /\ toolCall' = ToolReturn(selected_sources, ApiKeyNotConfigured, 0, 0)
       ELSE IF ~embedOk
       THEN /\ retrieval' = [user |-> u, via |-> "look_up_sources", chunks |-> {}]
            /\ toolCall' = ToolReturn(selected_sources, EmbeddingFailed, 1, 0)
       ELSE IF ~searchOk
       THEN /\ retrieval' = [user |-> u, via |-> "look_up_sources", chunks |-> {}]
            /\ toolCall' = ToolReturn(selected_sources, SearchFailed, 1, 1)
       ELSE \E c \in TopK(QdrantSearchWithFilter(points, selected_sources), top_k) :
               /\ retrieval' = [user |-> u, via |-> "look_up_sources", chunks |-> c]
               /\ toolCall' = ToolReturn(selected_sources,
                                         IF c = {} THEN NoRelevantInformation
                                         ELSE TopChunks, 1, 1)
    /\ UNCHANGED <<storeVars, topic, workerVars, uploads, docDeletes, cleanup,
                   nbDeletes, srcDeletes, lookup, publisher, adds, admin, presign,
                   stream, nextId>>

\* look_up_sources: the selected ids come from the injected state; an empty
\* selection returns the sentinel before the API key is read, the embedding is
\* created or the vector store is queried.  Then: no API key, the embedding
\* call fails, the search fails, no result, or the chunks found.
LookUpSourcesCall(u, selected_sources, top_k, apiKey, embedOk, searchOk) ==
    /\ IF selected_sources = {}
       THEN /\ retrieval' = [user |-> u, via |-> "look_up_sources", chunks |-> {}]
            /\ toolCall' = ToolReturn(selected_sources, NoSourcesSelected, 0, 0)
       ELSE IF ~apiKey
       THEN /\ retrieval' = [user |-> u, via |-> "look_up_sources", chunks |-> {}]
            /\ toolCall' = ToolReturn(selected_sources, ApiKeyNotConfigured, 0, 0)
       ELSE IF ~embedOk
       THEN /\ retrieval' = [user |-> u, via |-> "look_up_sources", chunks |-> {}]
            /\ toolCall' = ToolReturn(selected_sources, EmbeddingFailed, 1, 0)
       ELSE IF ~searchOk
       THEN /\ retrieval' = [user |-> u, via |-> "look_up_sources", chunks |-> {}]
            /\ toolCall' = ToolReturn(selected_sources, SearchFailed, 1, 1)
       ELSE \E c \in TopK(QdrantSearchWithFilter(points, selected_sources), top_k) :
               /\ retrieval' = [user |-> u, via |-> "look_up_sources", chunks |-> c]
               /\ toolCall' = ToolReturn(selected_sources,
                                         IF c = {} THEN NoRelevantInformation
                                         ELSE TopChunks, 1, 1)
    /\ UNCHANGED <<storeVars, topic, workerVars, uploads, docDeletes, cleanup,
                   nbDeletes, srcDeletes, lookup, publisher, adds, admin, presign,
                   stream, nextId>>

\* look_up_sources with the API key configured and both services available
LookUpSources(u, selected_sources, top_k) ==
    LookUpSourcesCall(u, selected_sources, top_k, TRUE, TRUE, TRUE)

\* QdrantManager.search_similar: a `must` filter on owner_id when one is given
SearchSimilar(pts, owner_id) ==
    IF owner_id = "" THEN pts ELSE {p \in pts : p.owner_id = owner_id}

\* search_documents: search_similar(owner_id=str(current_user.id))
SearchDocuments(u, limit) ==
    /\ \E c \in TopK(SearchSimilar(points, u), limit) :
          retrieval' = [user |-> u, via |-> "search_documents", chunks |-> c]
    /\ UNCHANGED <<storeVars, topic, workerVars, uploads, docDeletes, cleanup,
                   nbDeletes, srcDeletes, lookup, publisher, adds, extraVars, nextId>>

(***************************************************************************)
(* Delete notebook: NotebookDeleteService.delete_notebook_transactional    *)
(***************************************************************************)
IdleNbDelete == [pc |-> "idle", user |-> "-", notebook |-> NoId, orphaned |-> {},
                 sole |-> {}, deleted |-> {}, failed |-> {}, result |-> "-"]

NotebookOwner(nbs, n) ==
    IF \E nb \in nbs : nb.id = n THEN (CHOOSE nb \in nbs : nb.id = n).owner_id ELSE "-"

\* _identify_orphaned_sources: the sources linked to the notebook and to no
\* other notebook of the same owner
IdentifyOrphanedSources(nbs, nbsrc, srcs, n, owner) ==
    {s \in srcs :
        /\ \E ns \in nbsrc : ns.notebook_id = n /\ ns.source_id = s.id
        /\ ~\E other \in nbsrc :
              /\ other.source_id = s.id
              /\ other.notebook_id # n
              /\ NotebookOwner(nbs, other.notebook_id) = owner}

\* get_notebook_with_ownership, then _identify_orphaned_sources
NbDeleteStart(r, u, n) ==
    /\ nbDeletes[r].pc = "idle"
    /\ nbDeletes' = [nbDeletes EXCEPT ![r] =
         IF ~\E nb \in notebooks : nb.id = n /\ nb.owner_id = u
         THEN [IdleNbDelete EXCEPT !.pc = "done", !.user = u, !.notebook = n,
                                   !.result = "not_found"]
         ELSE LET orphaned == IdentifyOrphanedSources(notebooks, notebookSources,
                                                      sources, n, u)
              IN [IdleNbDelete EXCEPT !.pc = "cleanup", !.user = u, !.notebook = n,
                                      !.orphaned = {s.id : s \in orphaned},
                                      !.sole = orphaned]]
    /\ UNCHANGED <<storeVars, topic, workerVars, uploads, docDeletes, cleanup, srcDeletes, queryVars, nextId>>

\* one turn of _cleanup_orphaned_sources: delete_source_transactional for one
\* orphaned source; an exception is recorded in failed_deletions
NbDeleteSource(r, id, qdrantOk, commitOk) ==
    /\ nbDeletes[r].pc = "cleanup"
    /\ id \in nbDeletes[r].orphaned \ (nbDeletes[r].deleted \cup nbDeletes[r].failed)
    /\ LET u == nbDeletes[r].user
           found == {s \in sources : s.id = id /\ s.owner_id = u}
       IN IF found = {}
          THEN /\ nbDeletes' = [nbDeletes EXCEPT ![r].failed = @ \cup {id}]
               /\ UNCHANGED storeVars
          ELSE LET s == CHOOSE x \in found : TRUE IN
               /\ points' = CleanupSourcePoints(points, s, qdrantOk)
               /\ blobs' = CleanupSourceBlob(blobs, documents, s, u)
               /\ IF commitOk
                  THEN /\ sources' = DeleteSourceRow(sources, id)
                       /\ notebookSources' = DeleteSourceMemberships(notebookSources, id)
                       /\ documents' = DetachDocuments(documents, id)
                       /\ nbDeletes' = [nbDeletes EXCEPT ![r].deleted = @ \cup {id}]
                  ELSE /\ UNCHANGED <<sources, notebookSources, documents>>
                       /\ nbDeletes' = [nbDeletes EXCEPT ![r].failed = @ \cup {id}]
               /\ UNCHANGED notebooks
    /\ UNCHANGED <<topic, workerVars, uploads, docDeletes, cleanup, srcDeletes, queryVars, nextId>>

\* delete_notebook_transactional deleting the notebook without waiting for the
\* cleanup loop to have visited every orphaned source
NbDeleteRowEarly(r, ok) ==
    /\ nbDeletes[r].pc = "cleanup"
    /\ IF ok
       THEN /\ notebooks' = {nb \in notebooks : nb.id # nbDeletes[r].notebook}
            /\ notebookSources' =
                  {ns \in notebookSources : ns.notebook_id # nbDeletes[r].notebook}
            /\ nbDeletes' = [nbDeletes EXCEPT ![r].pc = "done", ![r].result = "ok"]
       ELSE /\ UNCHANGED <<notebooks, notebookSources>>
            /\ nbDeletes' = [nbDeletes EXCEPT ![r].pc = "done", ![r].result = "failed"]
    /\ UNCHANGED <<documents, sources, blobs, points, topic, workerVars, uploads,
                   docDeletes, cleanup, srcDeletes, queryVars, nextId>>

\* session.delete(notebook) + commit (the notebook's membership rows cascade);
\* a failure rolls back and the request fails
NbDeleteRow(r, ok) ==
    /\ nbDeletes[r].pc = "cleanup"
    /\ nbDeletes[r].deleted \cup nbDeletes[r].failed = nbDeletes[r].orphaned
    /\ IF ok
       THEN /\ notebooks' = {nb \in notebooks : nb.id # nbDeletes[r].notebook}
            /\ notebookSources' =
                  {ns \in notebookSources : ns.notebook_id # nbDeletes[r].notebook}
            /\ nbDeletes' = [nbDeletes EXCEPT ![r].pc = "done", ![r].result = "ok"]
       ELSE /\ UNCHANGED <<notebooks, notebookSources>>
            /\ nbDeletes' = [nbDeletes EXCEPT ![r].pc = "done", ![r].result = "failed"]
    /\ UNCHANGED <<documents, sources, blobs, points, topic, workerVars, uploads,
                   docDeletes, cleanup, srcDeletes, queryVars, nextId>>

(***************************************************************************)
(* Notebook membership: add_source_to_notebook                             *)
(***************************************************************************)
\* NotebookSourceCreate.position: None when the caller gives no position
NoPosition == -1

\* get_notebook_source_relationship: the rows of the pair
Relationship(nbsrc, n, s) == {ns \in nbsrc : ns.notebook_id = n /\ ns.source_id = s}

\* select(func.max(NotebookSource.position)) for the notebook: None without rows
MaxOfSet(S) == CHOOSE x \in S : \A y \in S : y <= x
MaxPositionQuery(nbsrc, n) ==
    LET ps == {ns.position : ns \in {x \in nbsrc : x.notebook_id = n}}
    IN IF ps = {} THEN NoPosition ELSE MaxOfSet(ps)

\* Python's `x or default`: None and 0 are both falsy
PyOr(x, default) == IF x = NoPosition \/ x = 0 THEN default ELSE x

\* the position of the new row: `(max_position or -1) + 1` when none is given
NewPosition(nbsrc, n, pos) ==
    IF pos = NoPosition THEN PyOr(MaxPositionQuery(nbsrc, n), -1) + 1 ELSE pos

\* uq_notebook_source: UniqueConstraint('notebook_id', 'source_id')
UqNotebookSource(nbsrc, n, s) == Relationship(nbsrc, n, s) # {}

\* The notebook and the source must both be owned by the caller (404
\* otherwise); an existing relationship is returned as it is; else the
\* membership row is inserted and committed
AddSourceToNotebook(u, n, s) ==
    /\ notebookSources' =
          IF /\ \E nb \in notebooks : nb.id = n /\ nb.owner_id = u
             /\ \E x \in sources : x.id = s /\ x.owner_id = u
             /\ Relationship(notebookSources, n, s) = {}
          THEN notebookSources \cup
                  {[id |-> <<n, s, 0>>, notebook_id |-> n, source_id |-> s,
                    position |-> NewPosition(notebookSources, n, NoPosition)]}
          ELSE notebookSources
    /\ UNCHANGED <<documents, sources, notebooks, blobs, points, topic, workerVars,
                   uploads, docDeletes, cleanup, nbDeletes, srcDeletes, queryVars,
                   nextId>>


\* The same endpoint step by step, for requests that run side by side
NoRow == [id |-> <<NoId, NoId, 0>>, notebook_id |-> NoId, source_id |-> NoId,
          position |-> NoPosition]
IdleAdd == [pc |-> "idle", user |-> "-", notebook |-> NoId, source |-> NoId,
            given |-> NoPosition, position |-> NoPosition, result |-> "-",
            row |-> NoRow]

\* up to session.add: the ownership checks (404), the lookup of an existing
\* relationship (returned as it is) and the position of the new row
AddCheckNoLookup(r, u, n, s, pos) ==
    /\ adds[r].pc = "idle"
    /\ LET req == [IdleAdd EXCEPT !.user = u, !.notebook = n, !.source = s,
                                  !.given = pos]
       IN adds' = [adds EXCEPT ![r] =
            IF ~(/\ \E nb \in notebooks : nb.id = n /\ nb.owner_id = u
                 /\ \E x \in sources : x.id = s /\ x.owner_id = u)
            THEN [req EXCEPT !.pc = "done", !.result = "not_found"]
            ELSE [req EXCEPT !.pc = "commit",
                             !.position = NewPosition(notebookSources, n, pos)]]
    /\ UNCHANGED <<storeVars, topic, workerVars, uploads, docDeletes, cleanup,
                   nbDeletes, srcDeletes, retrieval, lookup, publisher, extraVars, nextId>>

AddCheck(r, u, n, s, pos) ==
    /\ adds[r].pc = "idle"
    /\ LET req == [IdleAdd EXCEPT !.user = u, !.notebook = n, !.source = s,
                                  !.given = pos]
           existing == Relationship(notebookSources, n, s)
       IN adds' = [adds EXCEPT ![r] =
            IF ~(/\ \E nb \in notebooks : nb.id = n /\ nb.owner_id = u
                 /\ \E x \in sources : x.id = s /\ x.owner_id = u)
            THEN [req EXCEPT !.pc = "done", !.result = "not_found"]
            ELSE IF existing # {}
            THEN [req EXCEPT !.pc = "done", !.result = "existing",
                             !.row = CHOOSE ns \in existing : TRUE,
                             !.position = (CHOOSE ns \in existing : TRUE).position]
            ELSE [req EXCEPT !.pc = "commit",
                             !.position = NewPosition(notebookSources, n, pos)]]
    /\ UNCHANGED <<storeVars, topic, workerVars, uploads, docDeletes, cleanup,
                   nbDeletes, srcDeletes, retrieval, lookup, publisher, extraVars, nextId>>

\* session.commit: the insert is refused with IntegrityError (409) when a row
\* of the pair has been committed meanwhile; any other failure is a 500
AddCommitUnconstrained(r, ok) ==
    /\ adds[r].pc = "commit"
    /\ LET a == adds[r]
           row == [id |-> <<a.notebook, a.source, r>>, notebook_id |-> a.notebook,
                   source_id |-> a.source, position |-> a.position]
       IN IF ~ok
          THEN /\ adds' = [adds EXCEPT ![r].pc = "done", ![r].result = "failed"]
               /\ UNCHANGED notebookSources
          ELSE /\ notebookSources' = notebookSources \cup {row}
               /\ adds' = [adds EXCEPT ![r].pc = "done", ![r].result = "created",
                                       ![r].row = row]
    /\ UNCHANGED <<documents, sources, notebooks, blobs, points, topic, workerVars,
                   uploads, docDeletes, cleanup, nbDeletes, srcDeletes, retrieval,
                   lookup, publisher, extraVars, nextId>>

AddCommit(r, ok) ==
    /\ adds[r].pc = "commit"
    /\ LET a == adds[r]
           row == [id |-> <<a.notebook, a.source, r>>, notebook_id |-> a.notebook,
                   source_id |-> a.source, position |-> a.position]
       IN IF ~ok
          THEN /\ adds' = [adds EXCEPT ![r].pc = "done", ![r].result = "failed"]
               /\ UNCHANGED notebookSources
          ELSE IF UqNotebookSource(notebookSources, a.notebook, a.source)
          THEN /\ adds' = [adds EXCEPT ![r].pc = "done", ![r].result = "conflict"]
               /\ UNCHANGED notebookSources
          ELSE /\ notebookSources' = notebookSources \cup {row}
               /\ adds' = [adds EXCEPT ![r].pc = "done", ![r].result = "created",
                                       ![r].row = row]
    /\ UNCHANGED <<documents, sources, notebooks, blobs, points, topic, workerVars,
                   uploads, docDeletes, cleanup, nbDeletes, srcDeletes, retrieval,
                   lookup, publisher, extraVars, nextId>>

(***************************************************************************)
(* Reads of one resource and the http status of a refused request          *)
(***************************************************************************)
NoLookup == [route |-> "-", user |-> "-", id |-> NoId, status |-> 0]

\* general_exception_handler, registered for Exception: whatever is not an
\* HTTPException is answered with status 500
GeneralExceptionHandler(exc) == 500

\* The routes of files.py are written `@handle_file_errors` above
\* `@router.get(...)` / `@router.delete(...)`: the router registers the function
\* it is handed, the undecorated endpoint, and returns it unchanged, so the
\* wrapper that maps FileNotExistError to 404 is not part of the route. The
\* exception leaves the endpoint and reaches the application's handlers.
FileRouteStatus(exc) == GeneralExceptionHandler(exc)

\* get_source / update_source / delete_source: except SourceNotExistError ->
\* HTTPException(404); any other exception -> HTTPException(500)
SourceRouteStatus(exc) == IF exc = "SourceNotExistError" THEN 404 ELSE 500

\* get_notebook / update_notebook / delete_notebook: except
\* NotebookNotExistError -> HTTPException(404); otherwise 500
NotebookRouteStatus(exc) == IF exc = "NotebookNotExistError" THEN 404 ELSE 500

\* get_document: select by id and owner_id; FileNotExistError when no row
GetDocument(u, id) ==
    /\ lookup' = [route |-> "get_document", user |-> u, id |-> id,
                  status |-> IF \E d \in documents : d.id = id /\ d.owner_id = u
                             THEN 200 ELSE FileRouteStatus("FileNotExistError")]
    /\ UNCHANGED <<storeVars, topic, workerVars, uploads, docDeletes, cleanup,
                   nbDeletes, srcDeletes, retrieval, publisher, adds, extraVars, nextId>>

\* get_source: get_source_with_ownership
GetSource(u, id) ==
    /\ lookup' = [route |-> "get_source", user |-> u, id |-> id,
                  status |-> IF \E x \in sources : x.id = id /\ x.owner_id = u
                             THEN 200 ELSE SourceRouteStatus("SourceNotExistError")]
    /\ UNCHANGED <<storeVars, topic, workerVars, uploads, docDeletes, cleanup,
                   nbDeletes, srcDeletes, retrieval, publisher, adds, extraVars, nextId>>

\* get_notebook: get_notebook_with_ownership
GetNotebook(u, id) ==
    /\ lookup' = [route |-> "get_notebook", user |-> u, id |-> id,
                  status |-> IF \E nb \in notebooks : nb.id = id /\ nb.owner_id = u
                             THEN 200 ELSE NotebookRouteStatus("NotebookNotExistError")]
    /\ UNCHANGED <<storeVars, topic, workerVars, uploads, docDeletes, cleanup,
                   nbDeletes, srcDeletes, retrieval, publisher, adds, extraVars, nextId>>

\* the status a finished delete request answers with
DocDeleteStatus(r) ==
    CASE docDeletes[r].result = "not_found" -> FileRouteStatus("FileNotExistError")
      [] docDeletes[r].result = "failed" -> FileRouteStatus("FileOperationError")
      [] OTHER -> 200

SrcDeleteStatus(r) ==
    CASE srcDeletes[r].result = "not_found" -> SourceRouteStatus("SourceNotExistError")
      [] srcDeletes[r].result = "failed" -> SourceRouteStatus("HTTPException")
      [] OTHER -> 200

NbDeleteStatus(r) ==
    CASE nbDeletes[r].result = "not_found" -> NotebookRouteStatus("NotebookNotExistError")
      [] nbDeletes[r].result = "failed" -> NotebookRouteStatus("HTTPException")
      [] OTHER -> 200

(***************************************************************************)
(* Consistency-check and cleanup endpoints of files.py                     *)
(***************************************************************************)
AdminEndpoints == {"consistency-check", "cleanup/orphaned-files",
                   "cleanup/orphaned-records", "cleanup/full"}

IdleAdmin == [pc |-> "idle", endpoint |-> "-", is_superuser |-> FALSE,
              dry_run |-> TRUE, status |-> 0, scanned |-> FALSE,
              deleted_files |-> {}, deleted_rows |-> {}]

\* require_superuser's wrapper: FilePermissionError (403 through
\* handle_file_errors) unless the caller is a superuser, else the wrapped call
RequireSuperuser(is_superuser, inner) ==
    IF ~is_superuser THEN "FilePermissionError" ELSE inner

\* The four routes are written `@handle_file_errors`, `@require_superuser`
\* above `@router.get/post(...)`: the router decorator runs first, registers
\* the undecorated endpoint and returns it unchanged, so the function the
\* router calls is the endpoint without either wrapper.
RegisteredEndpoint(is_superuser, inner) == inner

\* one request to one of the four endpoints, the cleanup functions it calls
\* included: verify_data_consistency, cleanup_orphaned_minio_files,
\* cleanup_orphaned_database_records, run_full_cleanup.  delFiles and delRows
\* are the orphans whose removal succeeds (a failed removal is only recorded).
AdminRequest(endpoint, is_superuser, dry_run, delFiles, delRows) ==
    /\ admin.pc = "idle"
    /\ LET orphFiles == FindOrphanedMinioFiles(blobs, documents)
           orphRows == {d.id : d \in {x \in documents : blobs[x.object_key] = NoBlob}}
           doFiles == endpoint \in {"cleanup/orphaned-files", "cleanup/full"} /\ ~dry_run
           doRows == endpoint \in {"cleanup/orphaned-records", "cleanup/full"} /\ ~dry_run
           gone == IF doFiles THEN delFiles \cap orphFiles ELSE {}
           rows == IF doRows THEN delRows \cap orphRows ELSE {}
       IN IF RegisteredEndpoint(is_superuser, "ok") = "ok"
          THEN /\ blobs' = [k \in DOMAIN blobs |-> IF k \in gone THEN NoBlob ELSE blobs[k]]
               /\ documents' = {d \in documents : d.id \notin rows}
               /\ admin' = [pc |-> "done", endpoint |-> endpoint,
                            is_superuser |-> is_superuser, dry_run |-> dry_run,
                            status |-> 200, scanned |-> TRUE,
                            deleted_files |-> gone, deleted_rows |-> rows]
          ELSE /\ UNCHANGED <<blobs, documents>>
               /\ admin' = [IdleAdmin EXCEPT !.pc = "done", !.endpoint = endpoint,
                                             !.is_superuser = is_superuser,
                                             !.dry_run = dry_run, !.status = 403]
    /\ UNCHANGED <<sources, notebooks, notebookSources, points, topic, workerVars,
                   uploads, docDeletes, cleanup, nbDeletes, srcDeletes, retrieval,
                   lookup, publisher, adds, presign, toolCall, stream,
                   nextId>>

\* the response has been sent
AdminReturn ==
    /\ admin.pc = "done"
    /\ admin' = IdleAdmin
    /\ UNCHANGED <<storeVars, topic, workerVars, uploads, docDeletes, cleanup,
                   nbDeletes, srcDeletes, retrieval, lookup, publisher, adds, presign,
                   toolCall, stream, nextId>>

(***************************************************************************)
(* GET /uploads/presign: get_presigned_url                                 *)
(***************************************************************************)
NoUrl == <<>>
NoPresign == [user |-> "-", key |-> <<>>, url |-> NoUrl, status |-> 0]

\* minio_client.get_presigned_url: the signed URL for the object name it is
\* handed; signing looks at neither the rows nor the object
PresignedUrl(k) == <<"GET", k>>

\* get_presigned_url: the key of the query string goes to the MinIO client as
\* it is; no Document is selected and the caller's id is not used.  A failure
\* of the client raises FileOperationError.
GetPresignedUrl(u, k, ok) ==
    /\ presign' = IF ok
                  THEN [user |-> u, key |-> k, url |-> PresignedUrl(k), status |-> 200]
                  ELSE [user |-> u, key |-> k, url |-> NoUrl,
                        status |-> FileRouteStatus("FileOperationError")]
    /\ UNCHANGED <<storeVars, topic, workerVars, uploads, docDeletes, cleanup,
                   nbDeletes, srcDeletes, retrieval, lookup, publisher, adds, admin,
                   toolCall, stream, nextId>>

(***************************************************************************)
(* AG-UI event stream of a chat run: AGUIStreamingHandler.stream           *)
(***************************************************************************)
NoStream == [pc |-> "idle", events |-> <<>>, started |-> FALSE, chunks |-> 0]

\* the nodes of the agent graph a message chunk can come from
ChunkNodes == {"tool_node", "agent"}

\* emit_progress_log_events: delta and snapshot for a new progress log entry,
\* none when the last entry is for the same tool (should_add_progress_log)
ProgressLogEvents(newLog) ==
    IF newLog THEN <<"STATE_DELTA", "STATE_SNAPSHOT">> ELSE <<>>

\* default_tool_call + _handle_tool_node: the progress log events, then the
\* "done" snapshot
ToolNodeEvents(newLog) == ProgressLogEvents(newLog) \o <<"STATE_SNAPSHOT">>

\* default_llm_output: nothing for a chunk without content; TextMessageStart
\* before the first content, then TextMessageContent
LlmOutputEvents(content, started) ==
    IF content = "" THEN <<>>
    ELSE (IF started THEN <<>> ELSE <<"TEXT_MESSAGE_START">>)
            \o <<"TEXT_MESSAGE_CONTENT">>

\* the `except Exception` of stream: _emit_error_event, then re-raise
ErrorEvents(started) == <<"RUN_ERROR">>

\* _emit_run_started and _emit_initial_snapshot
StreamOpen ==
    /\ stream.pc = "idle"
    /\ stream' = [NoStream EXCEPT !.pc = "open",
                                  !.events = <<"RUN_STARTED", "STATE_SNAPSHOT">>]
    /\ UNCHANGED <<storeVars, topic, workerVars, uploads, docDeletes, cleanup,
                   nbDeletes, srcDeletes, retrieval, lookup, publisher, adds, admin,
                   presign, toolCall, nextId>>

\* one turn of the `async for` over agent.workflow.astream: the chunk is routed
\* by its node to _handle_tool_node or _handle_llm_output (which emits the
\* progress log events of a tool call in the chunk before the LLM output)
StreamChunk(node, content, newLog) ==
    /\ stream.pc = "open"
    /\ stream.chunks < MaxChunks
    /\ stream' = [stream EXCEPT
          !.chunks = @ + 1,
          !.events = @ \o (IF node = "tool_node" THEN ToolNodeEvents(newLog)
                           ELSE ProgressLogEvents(newLog)
                                   \o LlmOutputEvents(content, stream.started)),
          !.started = @ \/ (node # "tool_node" /\ content # "")]
    /\ UNCHANGED <<storeVars, topic, workerVars, uploads, docDeletes, cleanup,
                   nbDeletes, srcDeletes, retrieval, lookup, publisher, adds, admin,
                   presign, toolCall, nextId>>

\* state_builder, the workflow or a handler raises: RunError, and the
\* exception leaves the generator
StreamRaise ==
    /\ stream.pc = "open"
    /\ stream' = [stream EXCEPT !.pc = "raised",
                                !.events = @ \o ErrorEvents(stream.started)]
    /\ UNCHANGED <<storeVars, topic, workerVars, uploads, docDeletes, cleanup,
                   nbDeletes, srcDeletes, retrieval, lookup, publisher, adds, admin,
                   presign, toolCall, nextId>>

\* the workflow's stream is exhausted: TextMessageEnd when a message was
\* started, then RunFinished
StreamFinish ==
    /\ stream.pc = "open"
    /\ stream' = [stream EXCEPT
          !.pc = "finished",
          !.events = @ \o (IF stream.started THEN <<"TEXT_MESSAGE_END">> ELSE <<>>)
                       \o <<"RUN_FINISHED">>]
    /\ UNCHANGED <<storeVars, topic, workerVars, uploads, docDeletes, cleanup,
                   nbDeletes, srcDeletes, retrieval, lookup, publisher, adds, admin,
                   presign, toolCall, nextId>>

(***************************************************************************)
(* KafkaEventPublisher.publish_document_event / publish_url_source_event,  *)
(* each wrapped in kafka_retry (tenacity: retry when the call raises, stop *)
(* after KAFKA_RETRY_MAX_ATTEMPTS attempts)                                *)
(***************************************************************************)
KAFKA_RETRY_MAX_ATTEMPTS == 5

IdlePublisher == [pc |-> "idle", event |-> <<>>, attempts |-> 0, result |-> FALSE]

\* what one attempt can meet: the record is acknowledged, there is no producer,
\* future.get times out, the broker or the network fails, anything else fails
SendOutcomes == {"sent", "no_producer", "KafkaTimeoutError", "KafkaError", "Exception"}

\* the body of the publish function: every failure is caught inside it and
\* turned into the return value False; no exception leaves the body
PublishBody(outcome) ==
    [raised |-> FALSE, value |-> (outcome = "sent")]

\* the events the publisher is handed
PublishedEvents ==
    {[kind |-> "document", op |-> "c", id |-> 1, owner_id |-> "u1",
      object_key |-> ObjectKey("u1", "f1")],
     [kind |-> "url", op |-> "c", id |-> 2, owner_id |-> "u1", object_key |-> <<>>]}

\* the decorated function is called
PublishCall(ev) ==
    /\ publisher.pc = "idle"
    /\ Len(topic) < MaxTopic
    /\ publisher' = [IdlePublisher EXCEPT !.pc = "attempt", !.event = ev]
    /\ UNCHANGED <<storeVars, topic, workerVars, uploads, docDeletes, cleanup,
                   nbDeletes, srcDeletes, retrieval, lookup, adds, extraVars, nextId>>

\* one attempt: the body runs; tenacity makes another attempt only when the
\* body raised and fewer than KAFKA_RETRY_MAX_ATTEMPTS attempts were made
PublishAttempt(outcome) ==
    /\ publisher.pc = "attempt"
    /\ LET out == PublishBody(outcome)
           n == publisher.attempts + 1
       IN /\ topic' = IF outcome = "sent" THEN Append(topic, publisher.event) ELSE topic
          /\ publisher' = IF out.raised /\ n < KAFKA_RETRY_MAX_ATTEMPTS
                          THEN [publisher EXCEPT !.attempts = n]
                          ELSE [publisher EXCEPT !.attempts = n, !.pc = "returned",
                                                 !.result = ~out.raised /\ out.value]
    /\ UNCHANGED <<storeVars, workerVars, uploads, docDeletes, cleanup,
                   nbDeletes, srcDeletes, retrieval, lookup, adds, extraVars, nextId>>

\* the caller has the result; the publisher is free for the next call
PublishDone ==
    /\ publisher.pc = "returned"
    /\ publisher' = IdlePublisher
    /\ UNCHANGED <<storeVars, topic, workerVars, uploads, docDeletes, cleanup,
                   nbDeletes, srcDeletes, retrieval, lookup, adds, extraVars, nextId>>

(***************************************************************************)
(* Initial state: empty stores, no request in flight, worker at offset 0   *)
(***************************************************************************)
Init ==
    /\ documents = {}
    /\ sources = {}
    /\ notebooks = {}
    /\ notebookSources = {}
    /\ blobs = [k \in Keys |-> NoBlob]
    /\ points = {}
    /\ topic = <<>>
    /\ position = 0
    /\ committed = 0
    /\ tasks = <<>>
    /\ hashSeed = 1
    /\ timedOut = {}
    /\ applied = {}
    /\ uploads = [r \in UploadIds |-> IdleUpload]
    /\ docDeletes = [r \in DocDeleteIds |-> IdleDocDelete]
    /\ cleanup = IdleCleanup
    /\ nbDeletes = [r \in NbDeleteIds |-> IdleNbDelete]
    /\ srcDeletes = [r \in SrcDeleteIds |-> IdleSrcDelete]
    /\ retrieval = NoRetrieval
    /\ lookup = NoLookup
    /\ publisher = IdlePublisher
    /\ adds = [r \in AddIds |-> IdleAdd]
    /\ admin = IdleAdmin
    /\ presign = NoPresign
    /\ toolCall = NoToolCall
    /\ stream = NoStream
    /\ nextId = 1

(***************************************************************************)
(* Spec: the file operations of the resource service (uploads, document    *)
(* deletes, orphaned-file cleanup) running concurrently                    *)
(***************************************************************************)
\* request slots are taken in order (the slot number is only a label)
UploadSteps ==
    \/ \E r \in UploadIds, u \in Uploaders, f \in UploadFiles, c \in Contents,
          lim \in Limiters :
            /\ \A q \in UploadIds : q < r => uploads[q].pc # "idle"
            /\ UploadCheck(r, u, f, c, lim)
    \/ \E r \in UploadIds, ok \in BOOLEAN : UploadPut(r, ok)
    \/ \E r \in UploadIds, ok \in BOOLEAN : UploadCommit(r, ok)
    \/ \E r \in UploadIds, ok \in BOOLEAN : UploadPublish(r, ok)

DocDeleteSteps ==
    \/ \E r \in DocDeleteIds, u \in Uploaders, id \in 1..nextId :
            DocDeleteStart(r, u, id)
    \/ \E r \in DocDeleteIds, ok \in BOOLEAN : DocDeleteMinio(r, ok)
    \/ \E r \in DocDeleteIds, ok \in BOOLEAN : DocDeletePublish(r, ok)
    \/ \E r \in DocDeleteIds, ok \in BOOLEAN : DocDeleteRow(r, ok)

CleanupSteps ==
    \/ \E dry \in BOOLEAN : CleanupScan(dry)
    \/ \E k \in Keys, ok \in BOOLEAN : CleanupRemove(k, ok)

Next == UploadSteps \/ DocDeleteSteps \/ CleanupSteps

Spec == Init /\ [][Next]_vars

(***************************************************************************)
(* Uploads and deletes only (SpecKeying): the requests that insert and     *)
(* remove Document rows, one limiter-less service, one blob content.       *)
(***************************************************************************)
NextKeying ==
    \/ \E r \in UploadIds, f \in UploadFiles :
            /\ \A q \in UploadIds : q < r => uploads[q].pc # "idle"
            /\ UploadCheck(r, "u1", f, "x", "none")
    \/ \E r \in UploadIds, ok \in BOOLEAN : UploadPut(r, ok)
    \/ \E r \in UploadIds, ok \in BOOLEAN : UploadCommit(r, ok)
    \/ \E r \in UploadIds : UploadPublish(r, TRUE)
    \/ \E r \in DocDeleteIds, id \in 1..nextId : DocDeleteStart(r, "u1", id)
    \/ \E r \in DocDeleteIds, ok \in BOOLEAN : DocDeleteMinio(r, ok)
    \/ \E r \in DocDeleteIds : DocDeletePublish(r, TRUE)
    \/ \E r \in DocDeleteIds, ok \in BOOLEAN : DocDeleteRow(r, ok)

SpecKeying == Init /\ [][NextKeying]_vars

(***************************************************************************)
(* Properties of the file operations (checked under Spec)                  *)
(***************************************************************************)
UploadKey(r) == ObjectKey(uploads[r].user, uploads[r].file)

Quiescent ==
    /\ \A r \in UploadIds : uploads[r].pc \in {"idle", "done"}
    /\ \A r \in DocDeleteIds : docDeletes[r].pc \in {"idle", "done"}
    /\ cleanup.pc \in {"idle", "done"}

\* C2: after a failed upload (blob PUT failed, or commit failed after the PUT)
\* neither a Document row nor a blob exists for the upload's object key.
C2_FailedUploadLeavesNothing ==
    \A r \in UploadIds :
        (uploads[r].pc = "done" /\ uploads[r].result = "failed") =>
            /\ ~\E d \in documents : d.object_key = UploadKey(r)
            /\ blobs[UploadKey(r)] = NoBlob

\* C3: for every user u and object key k at most one Document row with
\* owner_id = u and object_key = k exists, in every reachable state.
C3_UniqueKeying ==
    \A d1 \in documents, d2 \in documents :
        (d1.owner_id = d2.owner_id /\ d1.object_key = d2.object_key) => d1 = d2

\* C3 witness: two uploads of the same (user, filename) raced past the
\* existence check; one committed its row, the other hit the constraint.
C3_Witness ==
    \E r1 \in UploadIds, r2 \in UploadIds :
        /\ r1 # r2
        /\ uploads[r1].user = uploads[r2].user
        /\ uploads[r1].file = uploads[r2].file
        /\ uploads[r1].doc # NoId
        /\ uploads[r2].pc = "done" /\ uploads[r2].cause = "integrity"
        /\ \E d \in documents : d.id = uploads[r1].doc

\* C4: in every state with no request in flight, every Document row has an
\* object at its object_key.
C4_RowsHaveBlobsWhenQuiescent ==
    Quiescent => \A d \in documents : blobs[d.object_key] # NoBlob

\* C10: the gate permits an upload by u iff the number of u's Document rows in
\* status `processing` is below the cap at the time of the check.
C10_GatePermitsIffBelowCap ==
    \A r \in UploadIds :
        (uploads[r].pc # "idle" /\ uploads[r].limiter = "simple") =>
            ((uploads[r].gate = "allow")
                <=> (uploads[r].gateCount < MAX_CONCURRENT_PROCESSING_PER_USER))

(***************************************************************************)
(* Notebook deletion (SpecNotebook).  The initial states are the states    *)
(* reached once user u1 has uploaded f1, the worker has indexed it, u1 has *)
(* registered it as a document source and has added a URL source that the  *)
(* worker has indexed as well, and has created two notebooks; the sources  *)
(* are attached to the notebooks in any way.                               *)
(***************************************************************************)
DocRowId == 1
DocSourceId == 2
UrlSourceId == 3
NotebookIds == {4, 5}

InitNotebook ==
    /\ documents = {[id |-> DocRowId, owner_id |-> "u1",
                     object_key |-> ObjectKey("u1", "f1"), status |-> "indexed",
                     file_hash |-> "x", source_id |-> NoId]}
    /\ sources = {[id |-> DocSourceId, owner_id |-> "u1", source_type |-> "document",
                   document_id |-> DocRowId, status |-> "pending"],
                  [id |-> UrlSourceId, owner_id |-> "u1", source_type |-> "url",
                   document_id |-> NoId, status |-> "indexed"]}
    /\ notebooks = {[id |-> n, owner_id |-> "u1"] : n \in NotebookIds}
    /\ notebookSources \in
          SUBSET {[id |-> <<n, s, 0>>, notebook_id |-> n, source_id |-> s, position |-> 0] :
                     n \in NotebookIds, s \in {DocSourceId, UrlSourceId}}
    /\ blobs = [k \in Keys |-> IF k = ObjectKey("u1", "f1") THEN "x" ELSE NoBlob]
    /\ points = NewPoints(1, DocRowId, SplitText("x"), "u1")
                   \cup NewPoints(1, UrlSourceId, SplitText("y"), "u1")
    /\ topic = <<>>
    /\ position = 0
    /\ committed = 0
    /\ tasks = <<>>
    /\ hashSeed = 1
    /\ timedOut = {}
    /\ applied = {}
    /\ uploads = [r \in UploadIds |-> IdleUpload]
    /\ docDeletes = [r \in DocDeleteIds |-> IdleDocDelete]
    /\ cleanup = IdleCleanup
    /\ nbDeletes = [r \in NbDeleteIds |-> IdleNbDelete]
    /\ srcDeletes = [r \in SrcDeleteIds |-> IdleSrcDelete]
    /\ retrieval = NoRetrieval
    /\ lookup = NoLookup
    /\ publisher = IdlePublisher
    /\ adds = [r \in AddIds |-> IdleAdd]
    /\ admin = IdleAdmin
    /\ presign = NoPresign
    /\ toolCall = NoToolCall
    /\ stream = NoStream
    /\ nextId = 6

NextNotebook ==
    \/ \E r \in NbDeleteIds, u \in Users, n \in NotebookIds : NbDeleteStart(r, u, n)
    \/ \E r \in NbDeleteIds, id \in {DocSourceId, UrlSourceId},
          qdrantOk \in BOOLEAN, commitOk \in BOOLEAN :
          NbDeleteSource(r, id, qdrantOk, commitOk)
    \/ \E r \in NbDeleteIds, ok \in BOOLEAN : NbDeleteRow(r, ok)

SpecNotebook == InitNotebook /\ [][NextNotebook]_vars

\* C1: after a delete request for notebook N completed successfully, every
\* source that was attached to N and to no other notebook of the same owner has
\* no Source row, no vector point under its id or its document's id and, if it
\* is a document source, no blob at its document's object key.
C1_OrphanCascade ==
    \A r \in NbDeleteIds :
        (nbDeletes[r].pc = "done" /\ nbDeletes[r].result = "ok") =>
            \A s \in nbDeletes[r].sole :
                /\ ~\E x \in sources : x.id = s.id
                /\ PointsOf(points, s.id) = {}
                /\ s.source_type = "document" =>
                      /\ PointsOf(points, s.document_id) = {}
                      /\ \A d \in documents :
                            d.id = s.document_id => blobs[d.object_key] = NoBlob

(***************************************************************************)
(* The indexing pipeline for documents (SpecWorker): uploads and deletes   *)
(* of one file by one user through a service without rate limiter, and the *)
(* worker with its restarts.                                               *)
(***************************************************************************)
NextWorker ==
    \/ \E r \in UploadIds, c \in Contents :
            /\ \A q \in UploadIds : q < r => uploads[q].pc = "done"
            /\ UploadCheck(r, "u1", "f1", c, "none")
    \/ \E r \in UploadIds : UploadPut(r, TRUE)
    \/ \E r \in UploadIds : UploadCommit(r, TRUE)
    \/ \E r \in UploadIds : UploadPublish(r, TRUE)
    \/ \E r \in DocDeleteIds, id \in 1..nextId : DocDeleteStart(r, "u1", id)
    \/ \E r \in DocDeleteIds : DocDeleteMinio(r, TRUE)
    \/ \E r \in DocDeleteIds : DocDeletePublish(r, TRUE)
    \/ \E r \in DocDeleteIds : DocDeleteRow(r, TRUE)
    \/ \E commit \in BOOLEAN : Poll(commit)
    \/ \E o \in 1..MaxTopic, ok \in BOOLEAN : TaskStart(o, ok)
    \/ \E o \in 1..MaxTopic : TaskFetch(o, blobs[tasks[o].ev.object_key])
    \/ \E o \in 1..MaxTopic, ok \in BOOLEAN : TaskUpsert(o, ok)
    \/ \E o \in 1..MaxTopic : TaskFinish(o)
    \/ Timeout
    \/ \E seed \in Seeds : Restart(seed)

SpecWorker == Init /\ [][NextWorker]_vars

IsCreate(o, id) == topic[o].op = "c" /\ topic[o].id = id
IsDelete(o, id) == topic[o].op = "d" /\ topic[o].id = id

C6_TimedOutOffsetNotCommitted == \A o \in timedOut : committed < o

Payload(p) == [document_id |-> p.document_id, chunk_index |-> p.chunk_index,
               chunk_text |-> p.chunk_text, owner_id |-> p.owner_id]

\* the task at offset o performs a successful upsert in this step
UpsertStep(o) ==
    /\ o \in DOMAIN tasks /\ tasks[o].pc = "index"
    /\ o \in DOMAIN tasks' /\ tasks'[o].pc = "finish"

\* the points under the event's id are exactly the chunks of content c
IndexedFrom(pts, id, owner, c) ==
    /\ Cardinality(PointsOf(pts, id)) = Len(SplitText(c))
    /\ {Payload(p) : p \in PointsOf(pts, id)}
          = {Payload(n) : n \in NewPoints(1, id, SplitText(c), owner)}

\* C7: replaying a create event for a document already indexed from the same
\* blob content leaves the document's points identical (same number, same
\* payloads), also when a restarted worker handles the replay.
C7_ReplayLeavesPointsIdentical ==
    [][\A o \in 1..MaxTopic :
          (/\ UpsertStep(o)
           /\ tasks[o].ev.kind = "document"
           /\ IndexedFrom(points, tasks[o].ev.id, tasks[o].ev.owner_id, tasks[o].data))
             => IndexedFrom(points', tasks[o].ev.id, tasks[o].ev.owner_id,
                            tasks[o].data)]_vars

(***************************************************************************)
(* The indexing pipeline for URL sources (SpecUrl): the page behind a URL  *)
(* may hold different content each time the worker fetches it.             *)
(***************************************************************************)
NextUrl ==
    \/ \E pubOk \in BOOLEAN :
            /\ Cardinality(sources) < MaxSources
            /\ CreateSource("u1", "url", NoId, pubOk)
    \/ \E commit \in BOOLEAN : Poll(commit)
    \/ \E o \in 1..MaxTopic, ok \in BOOLEAN : TaskStart(o, ok)
    \/ \E o \in 1..MaxTopic, c \in Contents \cup {NoBlob} : TaskFetch(o, c)
    \/ \E o \in 1..MaxTopic, ok \in BOOLEAN : TaskUpsert(o, ok)
    \/ \E o \in 1..MaxTopic : TaskFinish(o)
    \/ Timeout
    \/ \E seed \in Seeds : Restart(seed)

SpecUrl == Init /\ [][NextUrl]_vars

\* C8: after upsert(id, chunks2) succeeds, the points whose payload id is id
\* are exactly the points of chunks2, whatever chunk set was stored before.
C8_UpsertReplacesChunkSet ==
    [][\A o \in 1..MaxTopic :
          UpsertStep(o) =>
             IndexedFrom(points', tasks[o].ev.id, tasks[o].ev.owner_id,
                         tasks[o].data)]_vars

(***************************************************************************)
(* Admission and processing (SpecGate): one user uploads the files one     *)
(* after the other through a service without rate limiter while the worker *)
(* consumes the create events.                                             *)
(***************************************************************************)
GateUploadIds == 1..Len(FileNames)

InitGate ==
    /\ documents = {}
    /\ sources = {}
    /\ notebooks = {}
    /\ notebookSources = {}
    /\ blobs = [k \in Keys |-> NoBlob]
    /\ points = {}
    /\ topic = <<>>
    /\ position = 0
    /\ committed = 0
    /\ tasks = <<>>
    /\ hashSeed = 1
    /\ timedOut = {}
    /\ applied = {}
    /\ uploads = [r \in GateUploadIds |-> IdleUpload]
    /\ docDeletes = [r \in DocDeleteIds |-> IdleDocDelete]
    /\ cleanup = IdleCleanup
    /\ nbDeletes = [r \in NbDeleteIds |-> IdleNbDelete]
    /\ srcDeletes = [r \in SrcDeleteIds |-> IdleSrcDelete]
    /\ retrieval = NoRetrieval
    /\ lookup = NoLookup
    /\ publisher = IdlePublisher
    /\ adds = [r \in AddIds |-> IdleAdd]
    /\ admin = IdleAdmin
    /\ presign = NoPresign
    /\ toolCall = NoToolCall
    /\ stream = NoStream
    /\ nextId = 1

\* the schedules explored: after its first suspension a task resumes once the
\* tasks created before it have finished
EarlierDone(o) == \A q \in DOMAIN tasks : q < o => tasks[q].pc = "done"

NextGate ==
    \/ \E r \in GateUploadIds :
            /\ \A q \in GateUploadIds : q < r => uploads[q].pc = "done"
            /\ UploadCheck(r, "u1", FileNames[r], "y", "none")
    \/ \E r \in GateUploadIds : UploadPut(r, TRUE)
    \/ \E r \in GateUploadIds : UploadCommit(r, TRUE)
    \/ \E r \in GateUploadIds : UploadPublish(r, TRUE)
    \/ Poll(TRUE)
    \/ \E o \in 1..MaxTopic : TaskStart(o, TRUE)
    \/ \E o \in 1..MaxTopic :
            EarlierDone(o) /\ TaskFetch(o, blobs[tasks[o].ev.object_key])
    \/ \E o \in 1..MaxTopic : EarlierDone(o) /\ TaskUpsert(o, TRUE)
    \/ \E o \in 1..MaxTopic : EarlierDone(o) /\ TaskFinish(o)

SpecGate == InitGate /\ [][NextGate]_vars

\* C9: in every reachable state and for every user, the number of the user's
\* Documents in status `processing` is at most
\* MAX_CONCURRENT_PROCESSING_PER_USER + 1.
C9_ProcessingAtMostCapPlusOne ==
    \A u \in Users :
        ProcessingCount(documents, u) <= MAX_CONCURRENT_PROCESSING_PER_USER + 1

(***************************************************************************)
(* Deletions (SpecDeletion): document deletes, source deletes and the      *)
(* worker consuming the delete events, started from the populated states   *)
(* of InitNotebook.                                                        *)
(***************************************************************************)
UnknownId == 9

NextDeletion ==
    \/ \E r \in DocDeleteIds : DocDeleteStart(r, "u1", DocRowId)
    \/ \E r \in DocDeleteIds, ok \in BOOLEAN : DocDeleteMinio(r, ok)
    \/ \E r \in DocDeleteIds, ok \in BOOLEAN : DocDeletePublish(r, ok)
    \/ \E r \in DocDeleteIds, ok \in BOOLEAN : DocDeleteRow(r, ok)
    \/ \E r \in SrcDeleteIds, id \in {DocSourceId, UrlSourceId} :
          SrcDeleteStart(r, "u1", id)
    \/ \E r \in SrcDeleteIds, qdrantOk \in BOOLEAN : SrcDeleteCleanup(r, qdrantOk)
    \/ \E r \in SrcDeleteIds, ok \in BOOLEAN : SrcDeleteRow(r, ok)
    \/ Poll(TRUE)
    \/ \E o \in 1..MaxTopic, ok \in BOOLEAN : TaskStart(o, ok)

SpecDeletion == InitNotebook /\ [][NextDeletion]_vars

\* the step removes the row with this id
DocumentRemoved(id) ==
    /\ \E d \in documents : d.id = id
    /\ ~\E d \in documents' : d.id = id

SourceRemoved(id) ==
    /\ \E x \in sources : x.id = id
    /\ ~\E x \in sources' : x.id = id

\* the step removes the object at this key
BlobRemoved(k) == blobs[k] # NoBlob /\ blobs'[k] = NoBlob

SelectableIds == {DocRowId, UrlSourceId}
Limits == {1, 2}

NextRetrieval ==
    \/ \E u \in Users, sel \in SUBSET SelectableIds, k \in Limits :
          LookUpSources(u, sel, k)
    \/ \E u \in Users, k \in Limits : SearchDocuments(u, k)
    \/ \E r \in SrcDeleteIds, u \in Users, id \in {DocSourceId, UrlSourceId} :
          SrcDeleteStart(r, u, id)
    \/ \E r \in SrcDeleteIds, qdrantOk \in BOOLEAN : SrcDeleteCleanup(r, qdrantOk)
    \/ \E r \in SrcDeleteIds, ok \in BOOLEAN : SrcDeleteRow(r, ok)

SpecRetrieval == InitNotebook /\ [][NextRetrieval]_vars

\* C12: every chunk a retrieval call returns for user u carries owner_id = u,
\* whatever ids the request lists as selected sources.
C12_RetrievedChunksOwnedByCaller ==
    \A p \in retrieval.chunks : p.owner_id = retrieval.user

(***************************************************************************)
(* Requests on resources of another user                                   *)
(***************************************************************************)
NextOwnership ==
    \/ \E u \in Users, id \in {DocRowId, UnknownId} : GetDocument(u, id)
    \/ \E u \in Users, id \in {DocSourceId, UnknownId} : GetSource(u, id)
    \/ \E u \in Users, id \in NotebookIds \cup {UnknownId} : GetNotebook(u, id)
    \/ \E r \in DocDeleteIds, u \in Users, id \in {DocRowId, UnknownId} :
          DocDeleteStart(r, u, id)
    \/ \E r \in DocDeleteIds, ok \in BOOLEAN : DocDeleteMinio(r, ok)
    \/ \E r \in DocDeleteIds, ok \in BOOLEAN : DocDeletePublish(r, ok)
    \/ \E r \in DocDeleteIds, ok \in BOOLEAN : DocDeleteRow(r, ok)
    \/ \E r \in SrcDeleteIds, u \in Users, id \in {DocSourceId, UnknownId} :
          SrcDeleteStart(r, u, id)
    \/ \E r \in SrcDeleteIds, qdrantOk \in BOOLEAN : SrcDeleteCleanup(r, qdrantOk)
    \/ \E r \in SrcDeleteIds, ok \in BOOLEAN : SrcDeleteRow(r, ok)

SpecOwnership == InitNotebook /\ [][NextOwnership]_vars

\* C13: a read or delete of a Document, Source or Notebook by a caller who does
\* not own it is refused with status 404 - never 403 or 500 - as for an id that
\* does not exist, and the refused request changes no store.
C13_NonOwnerGetsNotFound ==
    [][/\ lookup' # lookup => lookup'.status \in {200, 404}
       /\ \A r \in DocDeleteIds :
             (docDeletes[r].pc = "idle" /\ docDeletes'[r].result = "not_found") =>
                 DocDeleteStatus(r)' = 404 /\ UNCHANGED <<storeVars, topic>>
       /\ \A r \in SrcDeleteIds :
             (srcDeletes[r].pc = "idle" /\ srcDeletes'[r].result = "not_found") =>
                 SrcDeleteStatus(r)' = 404 /\ UNCHANGED <<storeVars, topic>>]_vars

\* C14: after a successful delete of a document source S that references
\* document D there are no points with document_id = D, no blob at D's object
\* key, no Source row S, no Document row D and no membership referencing S.
C14_DocumentSourceDeleteCascades ==
    \A r \in SrcDeleteIds :
        (/\ srcDeletes[r].pc = "done" /\ srcDeletes[r].result = "ok"
         /\ srcDeletes[r].type = "document") =>
            /\ PointsOf(points, srcDeletes[r].document) = {}
            /\ srcDeletes[r].document = DocRowId =>
                  blobs[ObjectKey("u1", "f1")] = NoBlob
            /\ ~\E x \in sources : x.id = srcDeletes[r].source
            /\ ~\E d \in documents : d.id = srcDeletes[r].document
            /\ ~\E ns \in notebookSources : ns.source_id = srcDeletes[r].source

(***************************************************************************)
(* Notebook deletes next to source creation and membership changes         *)
(***************************************************************************)
NewSourceIds == 6..(5 + MaxSources)

NextShared ==
    \/ /\ Cardinality(sources) < 2 + MaxSources
       /\ CreateSource("u1", "document", DocRowId, FALSE)
    \/ \E n \in NotebookIds, s \in {DocSourceId, UrlSourceId} \cup NewSourceIds :
          AddSourceToNotebook("u1", n, s)
    \/ \E r \in NbDeleteIds, n \in NotebookIds : NbDeleteStart(r, "u1", n)
    \/ \E r \in NbDeleteIds, id \in {DocSourceId, UrlSourceId} \cup NewSourceIds,
          qdrantOk \in BOOLEAN, commitOk \in BOOLEAN :
          NbDeleteSource(r, id, qdrantOk, commitOk)
    \/ \E r \in NbDeleteIds, ok \in BOOLEAN : NbDeleteRow(r, ok)

SpecShared == InitNotebook /\ [][NextShared]_vars

\* the points of a source: those of its document, or those under its own id
SourcePoints(pts, s) ==
    PointsOf(pts, IF s.source_type = "document" THEN s.document_id ELSE s.id)

\* source s is attached to notebook n and to another notebook of n's owner
AlsoAttachedElsewhere(s, n) ==
    /\ \E ns \in notebookSources : ns.notebook_id = n /\ ns.source_id = s.id
    /\ \E other \in notebookSources :
          /\ other.source_id = s.id
          /\ other.notebook_id # n
          /\ NotebookOwner(notebooks, other.notebook_id) = NotebookOwner(notebooks, n)

\* C15: no step of a delete of notebook N removes a source that is also
\* attached to another notebook of the same owner: its row, its points, its
\* blob and its memberships in other notebooks stay as they are.
C15_SharedSourcesUntouched ==
    [][\A r \in NbDeleteIds :
          (nbDeletes[r].pc = "cleanup" /\ nbDeletes'[r] # nbDeletes[r]) =>
             \A s \in sources :
                AlsoAttachedElsewhere(s, nbDeletes[r].notebook) =>
                   /\ s \in sources'
                   /\ SourcePoints(points', s) = SourcePoints(points, s)
                   /\ blobs' = blobs
                   /\ \A ns \in notebookSources :
                         (ns.source_id = s.id /\ ns.notebook_id # nbDeletes[r].notebook)
                            => ns \in notebookSources']_vars

(***************************************************************************)
(* Uploads one after the other, next to document deletes                   *)
(***************************************************************************)
NextSequential ==
    \/ \E r \in UploadIds, f \in UploadFiles :
            /\ \A q \in UploadIds : q < r => uploads[q].pc = "done"
            /\ UploadCheck(r, "u1", f, "x", "none")
    \/ \E r \in UploadIds, ok \in BOOLEAN : UploadPut(r, ok)
    \/ \E r \in UploadIds, ok \in BOOLEAN : UploadCommit(r, ok)
    \/ \E r \in UploadIds, ok \in BOOLEAN : UploadPublish(r, ok)
    \/ \E r \in DocDeleteIds, id \in 1..nextId : DocDeleteStart(r, "u1", id)
    \/ \E r \in DocDeleteIds, ok \in BOOLEAN : DocDeleteMinio(r, ok)
    \/ \E r \in DocDeleteIds, ok \in BOOLEAN : DocDeletePublish(r, ok)
    \/ \E r \in DocDeleteIds, ok \in BOOLEAN : DocDeleteRow(r, ok)

SpecSequential == Init /\ [][NextSequential]_vars

\* an upload by the same owner under the same filename as request r has
\* returned its Document, and that row still exists
UploadedBefore(r) ==
    \E q \in UploadIds :
        /\ q # r
        /\ uploads[q].pc = "done" /\ uploads[q].result = "ok"
        /\ uploads[q].user = uploads[r].user /\ uploads[q].file = uploads[r].file
        /\ \E d \in documents : d.id = uploads[q].doc

NextRedelete ==
    \/ \E r \in DocDeleteIds : DocDeleteStart(r, "u1", DocRowId)
    \/ \E r \in DocDeleteIds, ok \in BOOLEAN : DocDeleteMinio(r, ok)
    \/ \E r \in DocDeleteIds, ok \in BOOLEAN : DocDeletePublish(r, ok)
    \/ \E r \in DocDeleteIds, ok \in BOOLEAN : DocDeleteRow(r, ok)
    \/ \E r \in DocDeleteIds : DocDeleteReturn(r)

SpecRedelete == InitNotebook /\ [][NextRedelete]_vars

C18_FailedBlobDeleteKeepsRow ==
    [][\A r \in DocDeleteIds :
          (/\ docDeletes[r].pc = "minio" /\ docDeletes'[r].pc # "minio"
           /\ blobs[docDeletes[r].object_key] # NoBlob
           /\ blobs'[docDeletes[r].object_key] # NoBlob) =>
              /\ docDeletes'[r].pc = "done" /\ docDeletes'[r].result = "failed"
              /\ documents' = documents
              /\ \E d \in documents' : d.id = docDeletes[r].doc
              /\ topic' = topic]_vars

\* C18 witness: a delete request failed at the blob step; blob and row are there
C18_Witness ==
    \E r \in DocDeleteIds :
        /\ docDeletes[r].pc = "done" /\ docDeletes[r].result = "failed"
        /\ docDeletes[r].cause = "minio"
        /\ blobs[docDeletes[r].object_key] # NoBlob
        /\ \E d \in documents : d.id = docDeletes[r].doc

\* C19: when the create event cannot be published (nothing reaches the topic)
\* the upload still returns the Document it created, and the committed row and
\* the blob are left as they are.
C19_PublishFailureTolerated ==
    [][\A r \in UploadIds :
          (uploads[r].pc = "publish" /\ uploads'[r].pc # "publish" /\ topic' = topic) =>
              /\ uploads'[r].pc = "done" /\ uploads'[r].result = "ok"
              /\ uploads'[r].doc # NoId
              /\ documents' = documents /\ blobs' = blobs]_vars

\* C19 witness: an upload returned its Document although no create event for
\* it is on the topic; the row and the blob exist
C19_Witness ==
    \E r \in UploadIds :
        /\ uploads[r].pc = "done" /\ uploads[r].result = "ok"
        /\ ~\E i \in 1..Len(topic) : topic[i].op = "c" /\ topic[i].id = uploads[r].doc
        /\ \E d \in documents : d.id = uploads[r].doc
        /\ blobs[UploadKey(r)] # NoBlob

(***************************************************************************)
(* The reconciler: run_full_cleanup, started by the scheduler's loop or by *)
(* the cleanup endpoints.  A pass is the orphaned-file cleanup (CleanupScan *)
(* and CleanupRemove) followed by the orphaned-record cleanup.              *)
(***************************************************************************)
\* find_orphaned_database_records: Document rows whose object is not in MinIO
FindOrphanedDatabaseRecords(b, docs) == {d \in docs : b[d.object_key] = NoBlob}

\* cleanup_orphaned_database_records, the second half of run_full_cleanup: in
\* a real run the rows without a blob are deleted (a failed delete is only
\* recorded); the pass returns.  Nothing is published to Kafka.
CleanupRecords(ok) ==
    /\ cleanup.pc = "done"
    /\ LET orphaned == FindOrphanedDatabaseRecords(blobs, documents) IN
       documents' = IF cleanup.dry_run \/ ~ok THEN documents ELSE documents \ orphaned
    /\ cleanup' = IdleCleanup
    /\ UNCHANGED <<sources, notebooks, notebookSources, blobs, points, topic,
                   workerVars, uploads, docDeletes, nbDeletes, srcDeletes, queryVars,
                   nextId>>

\* one upload after another, each step of which may fail
ReconcileUploads ==
    \/ \E r \in UploadIds, c \in Contents :
            /\ \A q \in UploadIds : q < r => uploads[q].pc = "done"
            /\ UploadCheck(r, "u1", "f1", c, "none")
    \/ \E r \in UploadIds, ok \in BOOLEAN : UploadPut(r, ok)
    \/ \E r \in UploadIds, ok \in BOOLEAN : UploadCommit(r, ok)
    \/ \E r \in UploadIds, ok \in BOOLEAN : UploadPublish(r, ok)

\* the indexing worker's loop
ReconcileWorker ==
    \/ \E commit \in BOOLEAN : Poll(commit)
    \/ \E o \in 1..MaxTopic, ok \in BOOLEAN : TaskStart(o, ok)
    \/ \E o \in 1..MaxTopic : TaskFetch(o, blobs[tasks[o].ev.object_key])
    \/ \E o \in 1..MaxTopic, ok \in BOOLEAN : TaskUpsert(o, ok)
    \/ \E o \in 1..MaxTopic : TaskFinish(o)

\* reconciler passes, dry or real
ReconcilePass ==
    \/ \E dry \in BOOLEAN : CleanupScan(dry)
    \/ \E k \in Keys, ok \in BOOLEAN : CleanupRemove(k, ok)
    \/ \E ok \in BOOLEAN : CleanupRecords(ok)

NextReconcile == ReconcileUploads \/ ReconcileWorker \/ ReconcilePass

\* Requests run to completion, the worker's loop keeps polling and running its
\* tasks, and the scheduler's loop keeps starting passes.
SpecReconcile ==
    /\ Init /\ [][NextReconcile]_vars
    /\ WF_vars(ReconcileUploads) /\ WF_vars(ReconcileWorker) /\ WF_vars(ReconcilePass)

\* an upload returned its Document, the row is `pending`, and no create event
\* for it was published
MissedPublish(r) ==
    /\ uploads[r].pc = "done" /\ uploads[r].result = "ok"
    /\ \E d \in documents : d.id = uploads[r].doc /\ d.status = "pending"
    /\ ~\E i \in 1..Len(topic) : topic[i].op = "c" /\ topic[i].id = uploads[r].doc

\* the worker has taken the document up: its row has left `pending`
LeftPending(r) ==
    \E d \in documents : d.id = uploads[r].doc /\ d.status # "pending"

\* C20: a Document row that was committed while its create event was not
\* published is repaired by a later reconciler pass: the document is
\* eventually processed and its status leaves `pending`.
C20_MissedPublishRepaired ==
    \A r \in UploadIds : MissedPublish(r) ~> LeftPending(r)

(***************************************************************************)
(* The publisher on its own: calls, attempts and returns                   *)
(***************************************************************************)
NextPublisher ==
    \/ \E ev \in PublishedEvents : PublishCall(ev)
    \/ \E outcome \in SendOutcomes : PublishAttempt(outcome)
    \/ PublishDone

SpecPublisher == Init /\ [][NextPublisher]_vars

\* C21: a publish that meets a network or broker error is retried, up to 5
\* attempts in all, and failure is returned only after all 5 attempts failed.
C21_FailureOnlyAfterAllAttempts ==
    (publisher.pc = "returned" /\ ~publisher.result) =>
        publisher.attempts = KAFKA_RETRY_MAX_ATTEMPTS

(***************************************************************************)
(* The scheduler: CleanupScheduler._cleanup_loop and _run_cleanup          *)
(***************************************************************************)
\* "deleted_count" of cleanup_orphaned_minio_files and of
\* cleanup_orphaned_database_records: 0 when nothing is orphaned, 0 in a dry
\* run, else the number deleted
DeletedCount(orphaned, dry_run, ok) ==
    IF orphaned = {} \/ dry_run \/ ~ok THEN 0 ELSE Cardinality(orphaned)

\* verify_data_consistency: "is_consistent"
IsConsistent(b, docs) ==
    FindOrphanedMinioFiles(b, docs) = {} /\ FindOrphanedDatabaseRecords(b, docs) = {}

\* _run_cleanup, started by _cleanup_loop when the interval has elapsed and
\* run with no request beside it: the consistency check; when
\* inconsistent a dry run of run_full_cleanup; the real run only when the dry
\* run reports a deleted_count above 0
SchedulerRunCleanup(okFiles, okRecords) ==
    /\ cleanup.pc \in {"idle", "scheduled"}
    /\ LET files == FindOrphanedMinioFiles(blobs, documents)
           records == FindOrphanedDatabaseRecords(blobs, documents)
           dry_minio == DeletedCount(files, TRUE, okFiles)
           dry_database == DeletedCount(records, TRUE, okRecords)
           actual == /\ ~IsConsistent(blobs, documents)
                     /\ (dry_minio > 0 \/ dry_database > 0)
       IN /\ blobs' = IF actual /\ okFiles
                      THEN [k \in DOMAIN blobs |-> IF k \in files THEN NoBlob ELSE blobs[k]]
                      ELSE blobs
          /\ documents' = IF actual /\ okRecords
                          THEN documents \ FindOrphanedDatabaseRecords(blobs', documents)
                          ELSE documents
          /\ cleanup' = [IdleCleanup EXCEPT !.pc = "scheduled", !.dry_run = ~actual,
                                            !.orphaned = files]
    /\ UNCHANGED <<sources, notebooks, notebookSources, points, topic, workerVars,
                   uploads, docDeletes, nbDeletes, srcDeletes, queryVars, nextId>>

NextSchedule ==
    \/ ReconcileUploads
    \/ \E r \in DocDeleteIds, id \in 1..nextId : DocDeleteStart(r, "u1", id)
    \/ \E r \in DocDeleteIds, ok \in BOOLEAN : DocDeleteMinio(r, ok)
    \/ \E r \in DocDeleteIds, ok \in BOOLEAN : DocDeletePublish(r, ok)
    \/ \E r \in DocDeleteIds, ok \in BOOLEAN : DocDeleteRow(r, ok)
    \/ \E okFiles \in BOOLEAN, okRecords \in BOOLEAN :
            SchedulerRunCleanup(okFiles, okRecords)

SpecSchedule == Init /\ [][NextSchedule]_vars

\* no upload and no document delete is in flight
NoRequestInFlight ==
    /\ \A r \in UploadIds : uploads[r].pc \in {"idle", "done"}
    /\ \A r \in DocDeleteIds : docDeletes[r].pc \in {"idle", "done"}

\* C22: when the scheduler's cleanup run executes with no request in flight,
\* no orphaned blob and no orphaned Document row remains after it.
C22_ScheduledRunSweepsDrift ==
    [][(cleanup' # cleanup /\ cleanup'.pc = "scheduled" /\ NoRequestInFlight) =>
           IsConsistent(blobs', documents')]_vars

(***************************************************************************)
(* Membership: add requests for the notebooks and sources of u1, running   *)
(* side by side, with and without a position                               *)
(***************************************************************************)
Positions == {NoPosition, 2}

NextMembership ==
    \/ \E r \in AddIds, u \in Users, n \in NotebookIds,
          s \in {DocSourceId, UrlSourceId}, pos \in Positions :
            AddCheck(r, u, n, s, pos)
    \/ \E r \in AddIds, ok \in BOOLEAN : AddCommit(r, ok)

SpecMembership == InitNotebook /\ [][NextMembership]_vars

\* C23: for every (notebook, source) pair at most one NotebookSource row
\* exists, whatever the interleaving of concurrent add requests for the pair.
C23_UniqueMembership ==
    \A a \in notebookSources, b \in notebookSources :
        (a.notebook_id = b.notebook_id /\ a.source_id = b.source_id) => a = b

\* C23 witness: two requests for one pair both passed the lookup; one inserted
\* the row, the other was refused by the constraint
C23_Witness ==
    \E q \in AddIds, r \in AddIds :
        /\ adds[q].result = "created" /\ adds[r].result = "conflict"
        /\ adds[q].notebook = adds[r].notebook /\ adds[q].source = adds[r].source

\* the caller of request r owns the notebook and the source it names
OwnsBoth(a) ==
    /\ \E nb \in notebooks : nb.id = a.notebook /\ nb.owner_id = a.user
    /\ \E x \in sources : x.id = a.source /\ x.owner_id = a.user

\* C24: an add request for a pair that already has a membership row returns
\* that row (same id and position), inserts nothing and does not fail, so
\* repeating it leaves the membership table unchanged.
C24_AddExistingPairIsIdempotent ==
    [][\A r \in AddIds :
          (/\ adds[r].pc = "idle" /\ adds'[r].pc # "idle"
           /\ OwnsBoth(adds'[r])
           /\ Relationship(notebookSources, adds'[r].notebook, adds'[r].source) # {}) =>
              /\ adds'[r].pc = "done" /\ adds'[r].result = "existing"
              /\ adds'[r].row \in
                    Relationship(notebookSources, adds'[r].notebook, adds'[r].source)
              /\ adds'[r].position = adds'[r].row.position
              /\ notebookSources' = notebookSources]_vars

\* C24 witness: the request was repeated: two requests for one pair were both
\* answered with the existing row
C24_Witness ==
    \E q \in AddIds, r \in AddIds :
        /\ q # r
        /\ adds[q].result = "existing" /\ adds[r].result = "existing"
        /\ adds[q].row = adds[r].row /\ adds[q].row \in notebookSources

\* C25: a source added without a position gets max(position)+1 over the
\* notebook's existing membership rows, whatever the current maximum (0
\* included), so its position is above every existing one in the notebook.
C25_PositionIsMaxPlusOne ==
    [][\A r \in AddIds :
          (/\ adds[r].pc = "idle" /\ adds'[r].pc = "commit"
           /\ adds'[r].given = NoPosition
           /\ \E ns \in notebookSources : ns.notebook_id = adds'[r].notebook) =>
              /\ adds'[r].position =
                    MaxPositionQuery(notebookSources, adds'[r].notebook) + 1
              /\ \A ns \in notebookSources :
                    ns.notebook_id = adds'[r].notebook => ns.position < adds'[r].position]_vars

(***************************************************************************)
(* The happy path: uploads and url sources whose every call succeeds, and  *)
(* a worker that is neither restarted nor timed out                        *)
(***************************************************************************)
NextHappy ==
    \/ \E r \in UploadIds, c \in Contents :
            /\ \A q \in UploadIds : q < r => uploads[q].pc = "done"
            /\ UploadCheck(r, "u1", "f1", c, "none")
    \/ \E r \in UploadIds : UploadPut(r, TRUE)
    \/ \E r \in UploadIds : UploadCommit(r, TRUE)
    \/ \E r \in UploadIds : UploadPublish(r, TRUE)
    \/ /\ Cardinality(sources) < MaxSources
       /\ CreateSource("u1", "url", NoId, TRUE)
    \/ \E commit \in BOOLEAN : Poll(commit)
    \/ \E o \in 1..MaxTopic : TaskStart(o, TRUE)
    \/ \E o \in 1..MaxTopic, c \in Contents \cup {NoBlob} :
            /\ o \in DOMAIN tasks
            /\ tasks[o].ev.kind = "url" => c # NoBlob
            /\ TaskFetch(o, c)
    \/ \E o \in 1..MaxTopic : TaskUpsert(o, TRUE)
    \/ \E o \in 1..MaxTopic : TaskFinish(o)

SpecHappy == Init /\ [][NextHappy]_vars

\* the two status changes of the happy path
HappyChange(old, new) ==
    \/ old = "pending" /\ new = "processing"
    \/ old = "processing" /\ new = "indexed"

\* C26: in an execution without failures every status change of a Document or
\* a Source is pending -> processing or processing -> indexed; the status
\* never moves backwards.
C26_HappyPathStatusMonotone ==
    [][/\ \A d \in documents, e \in documents' :
              (d.id = e.id /\ d.status # e.status) => HappyChange(d.status, e.status)
       /\ \A d \in sources, e \in sources' :
              (d.id = e.id /\ d.status # e.status) => HappyChange(d.status, e.status)]_vars

\* C26 witness: a document and a url source have both gone all the way
C26_Witness ==
    /\ \E d \in documents : d.status = "indexed"
    /\ \E x \in sources : x.source_type = "url" /\ x.status = "indexed"
    /\ Cardinality(applied) >= 2

(***************************************************************************)
(* Processing with failing steps: one client registers its url sources,   *)
(* then uploads and deletes f1, one request after another, while the       *)
(* worker runs; the blob may be gone when the worker fetches it, the page  *)
(* fetch, the embedding and the upsert may fail                            *)
(***************************************************************************)
NextFailures ==
    \/ \E r \in UploadIds, c \in {"x"} :
            /\ NoRequestInFlight
            /\ \A q \in UploadIds : q < r => uploads[q].pc = "done"
            /\ UploadCheck(r, "u1", "f1", c, "none")
    \/ \E r \in UploadIds : UploadPut(r, TRUE)
    \/ \E r \in UploadIds : UploadCommit(r, TRUE)
    \/ \E r \in UploadIds : UploadPublish(r, TRUE)
    \/ /\ \A r \in UploadIds : uploads[r].pc = "idle"
       /\ Cardinality(sources) < MaxSources
       /\ CreateSource("u1", "url", NoId, TRUE)
    \/ \E r \in DocDeleteIds, d \in documents :
            /\ NoRequestInFlight
            /\ \A q \in DocDeleteIds : q < r => docDeletes[q].pc = "done"
            /\ DocDeleteStart(r, "u1", d.id)
    \/ \E r \in DocDeleteIds : DocDeleteMinio(r, TRUE)
    \/ \E r \in DocDeleteIds : DocDeletePublish(r, TRUE)
    \/ \E r \in DocDeleteIds : DocDeleteRow(r, TRUE)
    \/ Poll(TRUE)
    \/ \E o \in 1..MaxTopic : TaskStart(o, TRUE)
    \/ \E o \in 1..MaxTopic, c \in Contents \cup {NoBlob} :
            /\ o \in DOMAIN tasks
            /\ tasks[o].ev.kind = "url" => c \in {"y", NoBlob}
            /\ TaskFetch(o, c)
    \/ \E o \in 1..MaxTopic, ok \in BOOLEAN : TaskUpsert(o, ok)
    \/ \E o \in 1..MaxTopic : TaskFinish(o)

SpecFailures == Init /\ [][NextFailures]_vars

\* the rows an event is about
EntityRows(ev, docs, srcs) ==
    IF ev.kind = "document" THEN {d \in docs : d.id = ev.id}
    ELSE {x \in srcs : x.id = ev.id}

\* task o ends at a fatal step in this step: nothing fetched, or no text, an
\* embedding failure or an upsert failure
FatalStep(o) ==
    /\ o \in DOMAIN tasks /\ o \in DOMAIN tasks'
    /\ tasks[o].ev.op # "d"
    /\ tasks[o].pc \in {"fetch", "index"} /\ tasks'[o].pc = "done"

\* C27: when a processing step fails fatally the entity's status becomes
\* `failed` and stays so, and the worker neither re-enqueues the event nor
\* processes it again.
C27_FatalStepMarksFailedOnce ==
    [][/\ \A o \in 1..MaxTopic :
             FatalStep(o) =>
                /\ \A e \in EntityRows(tasks[o].ev, documents', sources') :
                      e.status = "failed"
                /\ topic' = topic
       /\ \A d \in documents, e \in documents' :
             (d.id = e.id /\ d.status = "failed") => e.status = "failed"
       /\ \A d \in sources, e \in sources' :
             (d.id = e.id /\ d.status = "failed") => e.status = "failed"
       /\ \A o \in DOMAIN tasks' :
             IF o \in DOMAIN tasks THEN tasks[o].pc = "done" => tasks'[o].pc = "done"
             ELSE o > position]_vars

\* C27 witness: the processing of a document and of a url source both ended at
\* a fatal step; both are `failed` and the worker has moved on
C27_Witness ==
    /\ \E d \in documents : d.status = "failed"
    /\ \E x \in sources : x.status = "failed"
    /\ Unfinished = {} /\ position = Len(topic) /\ position >= 2

(***************************************************************************)
(* Files without text: uploads of a file whose extraction yields no text   *)
(* (process_source returns ""), every call succeeding                      *)
(***************************************************************************)
NoTextContent == "blank"

NextNoText ==
    \/ \E r \in UploadIds, c \in {"x", NoTextContent} :
            /\ \A q \in UploadIds : q < r => uploads[q].pc = "done"
            /\ UploadCheck(r, "u1", "f1", c, "none")
    \/ \E r \in UploadIds : UploadPut(r, TRUE)
    \/ \E r \in UploadIds : UploadCommit(r, TRUE)
    \/ \E r \in UploadIds : UploadPublish(r, TRUE)
    \/ \E commit \in BOOLEAN : Poll(commit)
    \/ \E o \in 1..MaxTopic : TaskStart(o, TRUE)
    \/ \E o \in 1..MaxTopic :
            /\ o \in DOMAIN tasks
            /\ TaskFetch(o, blobs[tasks[o].ev.object_key])
    \/ \E o \in 1..MaxTopic : TaskUpsert(o, TRUE)
    \/ \E o \in 1..MaxTopic : TaskFinish(o)
    \/ \E limit \in Limits : SearchDocuments("u1", limit)

SpecNoText == Init /\ [][NextNoText]_vars

\* C28: a document whose extraction produces no text is not an error: its
\* processing ends with status `indexed` and zero chunks in the vector store,
\* and a retrieval returns nothing of it.
C28_NoTextIsIndexedEmpty ==
    \A o \in DOMAIN tasks :
        (tasks[o].pc = "done" /\ tasks[o].ev.op = "c"
            /\ tasks[o].data = NoTextContent) =>
            /\ \A d \in documents : d.id = tasks[o].ev.id => d.status = "indexed"
            /\ PointsOf(points, tasks[o].ev.id) = {}
            /\ \A c \in retrieval.chunks : c.document_id # tasks[o].ev.id

\* C29: in every reachable state every Document and every Source whose status
\* is `indexed` has points in the vector store whose payload id is its id.
C29_IndexedHasPoints ==
    /\ \A d \in documents : d.status = "indexed" => PointsOf(points, d.id) # {}
    /\ \A x \in sources : x.status = "indexed" => PointsOf(points, x.id) # {}

(***************************************************************************)
(* Url sources from creation to `indexed`: the broker, the page fetch, the *)
(* embedder and the vector store do not fail; the worker's loop keeps      *)
(* polling and its tasks keep running                                      *)
(***************************************************************************)
UrlWorkerSteps ==
    \/ \E commit \in BOOLEAN : Poll(commit)
    \/ \E o \in 1..MaxTopic : TaskStart(o, TRUE)
    \/ \E o \in 1..MaxTopic, c \in Contents \cup {NoBlob} :
            /\ o \in DOMAIN tasks
            /\ tasks[o].ev.kind = "url" => c # NoBlob
            /\ TaskFetch(o, c)
    \/ \E o \in 1..MaxTopic : TaskUpsert(o, TRUE)
    \/ \E o \in 1..MaxTopic : TaskFinish(o)

\* uploads share the topic and the worker's batches with the url sources
NextUrlLive ==
    \/ \E r \in UploadIds :
            /\ \A q \in UploadIds : q < r => uploads[q].pc = "done"
            /\ UploadCheck(r, "u1", "f1", "x", "none")
    \/ \E r \in UploadIds : UploadPut(r, TRUE)
    \/ \E r \in UploadIds : UploadCommit(r, TRUE)
    \/ \E r \in UploadIds : UploadPublish(r, TRUE)
    \/ /\ Cardinality(sources) < MaxSources
       /\ CreateSource("u1", "url", NoId, TRUE)
    \/ UrlWorkerSteps

SpecUrlLive == Init /\ [][NextUrlLive]_vars /\ WF_vars(UrlWorkerSteps)

\* C30: once a url source is created, with the broker, the fetch, the embedder
\* and the vector store not failing, its create event is published and the
\* worker eventually upserts at least one chunk under the source's id and sets
\* its status to `indexed`.
C30_UrlSourceEventuallyIndexed ==
    \A id \in 1..(MaxUploads + MaxSources) :
        (\E x \in sources : x.id = id /\ x.source_type = "url") ~>
            (/\ \E i \in 1..Len(topic) :
                    topic[i] = [kind |-> "url", op |-> "c", id |-> id,
                                owner_id |-> "u1", object_key |-> <<>>]
             /\ PointsOf(points, id) # {}
             /\ \E x \in sources : x.id = id /\ x.status = "indexed")

\* C30 witness: a url source is `indexed` and has points under its id
C30_Witness ==
    \E x \in sources :
        /\ x.source_type = "url" /\ x.status = "indexed"
        /\ PointsOf(points, x.id) # {}
        /\ \E o \in applied : topic[o].id = x.id /\ topic[o].op = "c"
(***************************************************************************)
(* Source deletes whose storage cleanup can fail while the database is     *)
(* available (SpecSourceDelete), from the populated states of InitNotebook *)
(***************************************************************************)
NextSourceDelete ==
    \/ \E r \in SrcDeleteIds, u \in Users, id \in {DocSourceId, UrlSourceId, UnknownId} :
          SrcDeleteStart(r, u, id)
    \/ \E r \in SrcDeleteIds, qdrantOk \in BOOLEAN : SrcDeleteCleanup(r, qdrantOk)
    \/ \E r \in SrcDeleteIds : SrcDeleteRow(r, TRUE)

SpecSourceDelete == InitNotebook /\ [][NextSourceDelete]_vars

\* what the storage cleanup of request r has left behind
PointsLeft(r) ==
    \/ srcDeletes[r].type = "url" /\ PointsOf(points, srcDeletes[r].source) # {}
    \/ srcDeletes[r].type = "document" /\ PointsOf(points, srcDeletes[r].document) # {}

BlobLeft(r) ==
    /\ srcDeletes[r].type = "document"
    /\ \E d \in documents : d.id = srcDeletes[r].document /\ blobs[d.object_key] # NoBlob

NextAdmin ==
    \/ \E r \in UploadIds :
            /\ \A q \in UploadIds : q < r => uploads[q].pc = "done"
            /\ UploadCheck(r, "u1", "f1", "x", "none")
    \/ \E r \in UploadIds : UploadPut(r, TRUE)
    \/ \E r \in UploadIds, ok \in BOOLEAN : UploadCommit(r, ok)
    \/ \E r \in UploadIds : UploadPublish(r, TRUE)
    \/ \E r \in DocDeleteIds, d \in documents : DocDeleteStart(r, "u1", d.id)
    \/ \E r \in DocDeleteIds : DocDeleteMinio(r, TRUE)
    \/ \E r \in DocDeleteIds : DocDeletePublish(r, TRUE)
    \/ \E r \in DocDeleteIds, ok \in BOOLEAN : DocDeleteRow(r, ok)
    \/ \E e \in AdminEndpoints, su \in BOOLEAN, dry_run \in BOOLEAN,
          delFiles \in SUBSET FindOrphanedMinioFiles(blobs, documents),
          delRows \in SUBSET {d.id : d \in FindOrphanedDatabaseRecords(blobs, documents)} :
            AdminRequest(e, su, dry_run, delFiles, delRows)
    \/ AdminReturn

SpecAdmin == Init /\ [][NextAdmin]_vars

\* C32: a request by a non-superuser to the consistency-check endpoint or to a
\* cleanup endpoint is rejected with 403 and performs no consistency scan and
\* deletes no blob and no Document row.
C32_NonSuperuserRejected ==
    (admin.pc = "done" /\ ~admin.is_superuser) =>
        /\ admin.status = 403
        /\ ~admin.scanned
        /\ admin.deleted_files = {}
        /\ admin.deleted_rows = {}
(***************************************************************************)
(* Presigned URLs requested by both users while both upload (SpecPresign)  *)
(***************************************************************************)
NextPresign ==
    \/ \E r \in UploadIds, u \in Users :
            /\ \A q \in UploadIds : q < r => uploads[q].pc = "done"
            /\ UploadCheck(r, u, "f1", "x", "none")
    \/ \E r \in UploadIds : UploadPut(r, TRUE)
    \/ \E r \in UploadIds : UploadCommit(r, TRUE)
    \/ \E r \in UploadIds : UploadPublish(r, TRUE)
    \/ \E u \in Users, k \in Keys, ok \in BOOLEAN : GetPresignedUrl(u, k, ok)

SpecPresign == Init /\ [][NextPresign]_vars

\* C33: GET /uploads/presign returns a presigned URL only for an object key
\* that belongs to a Document owned by the caller; no URL is issued for a key
\* of another user's document.
C33_PresignOnlyOwnKeys ==
    presign.url # NoUrl =>
        \E d \in documents : d.object_key = presign.key /\ d.owner_id = presign.user
(***************************************************************************)
(* The retrieval tool called with any selection, with and without its API  *)
(* key, embedder and vector store (SpecTool), over the populated states of *)
(* InitNotebook, while the url source is being deleted                     *)
(***************************************************************************)
NextTool ==
    \/ \E u \in Users, selected \in SUBSET SelectableIds, top_k \in 1..2,
          apiKey \in BOOLEAN, embedOk \in BOOLEAN, searchOk \in BOOLEAN :
            LookUpSourcesCall(u, selected, top_k, apiKey, embedOk, searchOk)
    \/ \E r \in SrcDeleteIds : SrcDeleteStart(r, "u1", UrlSourceId)
    \/ \E r \in SrcDeleteIds : SrcDeleteCleanup(r, TRUE)
    \/ \E r \in SrcDeleteIds : SrcDeleteRow(r, TRUE)

SpecTool == InitNotebook /\ [][NextTool]_vars

\* C34: called with an empty selected_sources, the retrieval tool returns the
\* literal sentinel "No sources selected. Please select at least one source and
\* try again." and makes no embedding call and no vector query.
C34_EmptySelectionReturnsSentinel ==
    (toolCall.called /\ toolCall.empty_selection) =>
        /\ toolCall.message =
              "No sources selected. Please select at least one source and try again."
        /\ toolCall.embedding_calls = 0
        /\ toolCall.vector_queries = 0
        /\ retrieval.chunks = {}

\* C34 witness: the tool was called with an empty selection while the vector
\* store holds points, and returned the sentinel
C34_Witness ==
    /\ toolCall.called /\ toolCall.empty_selection
    /\ toolCall.message = NoSourcesSelected
    /\ points # {}
(***************************************************************************)
(* Notebook deletes and their cleanup summaries (SpecSummary): the source  *)
(* deletes of the cleanup loop can fail, the notebook's own delete commits *)
(***************************************************************************)
NextSummary ==
    \/ \E r \in NbDeleteIds, u \in Users, n \in NotebookIds : NbDeleteStart(r, u, n)
    \/ \E r \in NbDeleteIds, id \in {DocSourceId, UrlSourceId},
          qdrantOk \in BOOLEAN, commitOk \in BOOLEAN :
          NbDeleteSource(r, id, qdrantOk, commitOk)
    \/ \E r \in NbDeleteIds : NbDeleteRow(r, TRUE)

SpecSummary == InitNotebook /\ [][NextSummary]_vars

\* cleanup_summary of request r: total_orphaned, successfully_deleted and the
\* length of failed_deletions
CleanupSummary(r) ==
    [total_orphaned |-> Cardinality(nbDeletes[r].sole),
     successfully_deleted |-> Cardinality(nbDeletes[r].deleted),
     failed_deletions |-> Cardinality(nbDeletes[r].failed)]

\* C35: deleting a notebook that has no sources succeeds with a cleanup summary
\* of zero orphans; and every successful notebook deletion's summary satisfies
\* successfully_deleted + |failed_deletions| = total_orphaned = number of
\* orphaned sources identified.
C35_CleanupSummaryAddsUp ==
    /\ [](\A r \in NbDeleteIds :
            (nbDeletes[r].pc = "done" /\ nbDeletes[r].result # "not_found") =>
               /\ nbDeletes[r].result = "ok"
               /\ NbDeleteStatus(r) = 200
               /\ CleanupSummary(r).successfully_deleted
                     + CleanupSummary(r).failed_deletions
                  = CleanupSummary(r).total_orphaned
               /\ CleanupSummary(r).total_orphaned = Cardinality(nbDeletes[r].orphaned)
               /\ nbDeletes[r].deleted \cap nbDeletes[r].failed = {})
    /\ [][\A r \in NbDeleteIds :
            (/\ nbDeletes[r].pc = "idle" /\ nbDeletes'[r].pc = "cleanup"
             /\ ~\E ns \in notebookSources : ns.notebook_id = nbDeletes'[r].notebook)
            => CleanupSummary(r)' = [total_orphaned |-> 0, successfully_deleted |-> 0,
                                     failed_deletions |-> 0]]_vars

\* C35 witness: a notebook delete succeeded after its cleanup loop deleted one
\* orphaned source and failed on the other
C35_Witness ==
    \E r \in NbDeleteIds :
        /\ nbDeletes[r].pc = "done" /\ nbDeletes[r].result = "ok"
        /\ CleanupSummary(r) = [total_orphaned |-> 2, successfully_deleted |-> 1,
                                failed_deletions |-> 1]
(***************************************************************************)
(* A delete request racing with the worker's processing of the entity's    *)
(* create event (SpecRace): url sources and uploaded documents, every      *)
(* store and the broker available                                          *)
(***************************************************************************)
NextRace ==
    \/ \E r \in UploadIds :
            /\ \A q \in UploadIds : q < r => uploads[q].pc = "done"
            /\ UploadCheck(r, "u1", "f1", "x", "none")
    \/ \E r \in UploadIds : UploadPut(r, TRUE)
    \/ \E r \in UploadIds : UploadCommit(r, TRUE)
    \/ \E r \in UploadIds : UploadPublish(r, TRUE)
    \/ /\ Cardinality(sources) < MaxSources
       /\ CreateSource("u1", "url", NoId, TRUE)
    \/ \E r \in DocDeleteIds, d \in documents : DocDeleteStart(r, "u1", d.id)
    \/ \E r \in DocDeleteIds : DocDeleteMinio(r, TRUE)
    \/ \E r \in DocDeleteIds : DocDeletePublish(r, TRUE)
    \/ \E r \in DocDeleteIds : DocDeleteRow(r, TRUE)
    \/ \E r \in SrcDeleteIds, s \in sources : SrcDeleteStart(r, "u1", s.id)
    \/ \E r \in SrcDeleteIds : SrcDeleteCleanup(r, TRUE)
    \/ \E r \in SrcDeleteIds : SrcDeleteRow(r, TRUE)
    \/ Poll(TRUE)
    \/ \E o \in 1..MaxTopic : TaskStart(o, TRUE)
    \/ \E o \in 1..MaxTopic :
            /\ o \in DOMAIN tasks
            /\ TaskFetch(o, IF tasks[o].ev.kind = "url" THEN "y"
                            ELSE blobs[tasks[o].ev.object_key])
    \/ \E o \in 1..MaxTopic : TaskUpsert(o, TRUE)
    \/ \E o \in 1..MaxTopic : TaskFinish(o)

SpecRace == Init /\ [][NextRace]_vars

\* every event published for the entity has been consumed
AllEventsConsumed(id) ==
    \A o \in 1..Len(topic) : topic[o].id = id => o \in applied

\* C36: whatever the interleaving of a delete request for a url source or a
\* document with the worker's processing of its create event, once the delete
\* has completed and every event published for the entity has been consumed, no
\* point carries the entity's id.
C36_NoPointsAfterDeleteAndDrain ==
    /\ \A r \in SrcDeleteIds :
          (/\ srcDeletes[r].pc = "done" /\ srcDeletes[r].result = "ok"
           /\ srcDeletes[r].type = "url"
           /\ AllEventsConsumed(srcDeletes[r].source))
          => PointsOf(points, srcDeletes[r].source) = {}
    /\ \A r \in DocDeleteIds :
          (/\ docDeletes[r].pc = "done" /\ docDeletes[r].result = "ok"
           /\ AllEventsConsumed(docDeletes[r].doc))
          => PointsOf(points, docDeletes[r].doc) = {}
(***************************************************************************)
(* The worker with its batch timeout (SpecStuck): uploads and url sources  *)
(* are created without failures, the worker's loop keeps polling and its   *)
(* tasks keep running, and asyncio.wait_for may expire on a batch          *)
(***************************************************************************)
StuckRequests ==
    \/ \E r \in UploadIds :
            /\ \A q \in UploadIds : q < r => uploads[q].pc = "done"
            /\ UploadCheck(r, "u1", "f1", "x", "none")
    \/ \E r \in UploadIds : UploadPut(r, TRUE)
    \/ \E r \in UploadIds : UploadCommit(r, TRUE)
    \/ \E r \in UploadIds : UploadPublish(r, TRUE)
    \/ /\ Cardinality(sources) < MaxSources
       /\ CreateSource("u1", "url", NoId, TRUE)

StuckWorker ==
    \/ \E commit \in BOOLEAN : Poll(commit)
    \/ \E o \in 1..MaxTopic : TaskStart(o, TRUE)
    \/ \E o \in 1..MaxTopic :
            /\ o \in DOMAIN tasks
            /\ TaskFetch(o, IF tasks[o].ev.kind = "url" THEN "y"
                            ELSE blobs[tasks[o].ev.object_key])
    \/ \E o \in 1..MaxTopic : TaskUpsert(o, TRUE)
    \/ \E o \in 1..MaxTopic : TaskFinish(o)

NextStuck == StuckRequests \/ StuckWorker \/ Timeout

SpecStuck ==
    /\ Init /\ [][NextStuck]_vars
    /\ WF_vars(StuckRequests) /\ WF_vars(StuckWorker)

\* C37: every Document or Source whose status the worker has set to
\* `processing` eventually has status `indexed` or `failed`, also when its task
\* is cancelled by the batch timeout; none stays in `processing` forever.
C37_ProcessingEventuallySettles ==
    \A id \in 1..(MaxUploads + MaxSources) :
        /\ (\E d \in documents : d.id = id /\ d.status = "processing") ~>
              (\E d \in documents : d.id = id /\ d.status \in {"indexed", "failed"})
        /\ (\E s \in sources : s.id = id /\ s.status = "processing") ~>
              (\E s \in sources : s.id = id /\ s.status \in {"indexed", "failed"})
(***************************************************************************)
(* Two notebook deletes side by side, the vector store and the object      *)
(* store available (SpecTwoDeletes), from the populated state in which     *)
(* each source is attached to both notebooks                               *)
(***************************************************************************)
\* source id is attached to every notebook
AttachedToBoth(id) ==
    \A n \in NotebookIds :
        \E ns \in notebookSources : ns.notebook_id = n /\ ns.source_id = id

InitTwoDeletes ==
    /\ InitNotebook
    /\ \A id \in {DocSourceId, UrlSourceId} : AttachedToBoth(id)

NextTwoDeletes ==
    \/ \E r \in NbDeleteIds, u \in Users, n \in NotebookIds : NbDeleteStart(r, u, n)
    \/ \E r \in NbDeleteIds, id \in {DocSourceId, UrlSourceId} :
          NbDeleteSource(r, id, TRUE, TRUE)
    \/ \E r \in NbDeleteIds, ok \in BOOLEAN : NbDeleteRow(r, ok)

SpecTwoDeletes == InitTwoDeletes /\ [][NextTwoDeletes]_vars

\* every notebook is gone and no delete request is under way
BothDeleted ==
    /\ notebooks = {}
    /\ \A r \in NbDeleteIds : nbDeletes[r].pc \in {"idle", "done"}

\* the source's row and vector points are gone (and the blob, for the document
\* source)
SourceGone(id) ==
    /\ ~\E s \in sources : s.id = id
    /\ id = UrlSourceId => PointsOf(points, UrlSourceId) = {}
    /\ id = DocSourceId =>
          /\ PointsOf(points, DocRowId) = {}
          /\ blobs[ObjectKey("u1", "f1")] = NoBlob

\* C38: a source attached to exactly the notebooks N1 and N2 of one owner has
\* been deleted (row, vector points, blob) by the time the delete requests for
\* both notebooks have completed, whatever their interleaving; it never
\* survives attached to no notebook.
C38_SharedSourceDeletedWithLastNotebook ==
    BothDeleted => \A id \in {DocSourceId, UrlSourceId} : SourceGone(id)
(***************************************************************************)
(* Uploads of one file name side by side, by either user and with either   *)
(* content, every store and the broker available (SpecTwoUploads)          *)
(***************************************************************************)
NextTwoUploads ==
    \/ \E r \in UploadIds, u \in Users, c \in Contents :
          UploadCheck(r, u, "f1", c, "none")
    \/ \E r \in UploadIds : UploadPut(r, TRUE)
    \/ \E r \in UploadIds : UploadCommit(r, TRUE)
    \/ \E r \in UploadIds : UploadPublish(r, TRUE)

SpecTwoUploads == Init /\ [][NextTwoUploads]_vars

\* C39: whatever the interleaving of two uploads by the same user with the same
\* filename and different bytes, after both have completed the bytes stored at
\* the object key are those whose SHA-256 is recorded in the single committed
\* Document row.
C39_BlobMatchesCommittedRow ==
    (\A r \in UploadIds : uploads[r].pc = "done") =>
        /\ \A k \in Keys : Cardinality({d \in documents : d.object_key = k}) <= 1
        /\ \A d \in documents : blobs[d.object_key] = d.file_hash
(***************************************************************************)
(* The event stream of one chat run (SpecStream)                           *)
(***************************************************************************)
NextStream ==
    \/ StreamOpen
    \/ \E node \in ChunkNodes, content \in {"", "t"}, newLog \in BOOLEAN :
          /\ node = "tool_node" => content = ""
          /\ StreamChunk(node, content, newLog)
    \/ StreamRaise
    \/ StreamFinish

SpecStream == Init /\ [][NextStream]_vars

\* the number of events of one type in the stream
CountOf(type) == Cardinality({i \in 1..Len(stream.events) : stream.events[i] = type})

\* no event follows the one at position i
IsLast(i) == i = Len(stream.events)

\* C40: in every event stream of a chat run RunStarted is the first event;
\* TextMessageStart is emitted at most once and before any TextMessageContent;
\* TextMessageEnd is emitted if and only if TextMessageStart was emitted; and
\* the run is terminated by exactly one of RunFinished and RunError, never
\* both, with no event after it.
C40_EventStreamWellFormed ==
    LET ev == stream.events IN
    /\ ev # <<>> => ev[1] = "RUN_STARTED"
    /\ CountOf("TEXT_MESSAGE_START") <= 1
    /\ \A i \in 1..Len(ev) :
          ev[i] = "TEXT_MESSAGE_CONTENT" =>
             \E j \in 1..(i - 1) : ev[j] = "TEXT_MESSAGE_START"
    /\ \A i \in 1..Len(ev) : ev[i] \in {"RUN_FINISHED", "RUN_ERROR"} => IsLast(i)
    /\ stream.pc \in {"finished", "raised"} =>
          /\ CountOf("RUN_FINISHED") + CountOf("RUN_ERROR") = 1
          /\ CountOf("TEXT_MESSAGE_END") = CountOf("TEXT_MESSAGE_START")

====
